---- MODULE Spec2Model ----
(***************************************************************************)
(* A model of pseudos, the BIOS/DOS personality layer of an 8086 emulator: *)
(* the DOS file system of libpseudos/src/dos_file_system.rs (8.3 name      *)
(* translation, directory cache, handle table, find-first/find-next), the  *)
(* interrupt dispatcher of libpseudos/src/dos_event_handler.rs and the     *)
(* step loop of pseudos/src/main.rs.                                       *)
(*                                                                         *)
(* Conventions.  A character is its scalar value (a byte for DOS names),   *)
(* a string is a sequence of characters.  Rust's Option<T> is a sequence   *)
(* of length at most one: <<>> is None and <<x>> is Some(x).  A HashMap is *)
(* a function whose DOMAIN is its key set.                                 *)
(***************************************************************************)
EXTENDS Integers, Sequences, FiniteSets, TLC

VARIABLES
    \* ---- host side of StandardDosFileSystem
    disk,                \* the host directory: a sequence (read_dir order) of [name, data]
    \* ---- StandardDosFileSystem
    file_handles,        \* Vec<Option<File>>; a File is [name, pos, readable, writable]
    real_to_dos_names,   \* DirListingCache.real_to_dos_names
    dos_to_real_names,   \* DirListingCache.dos_to_real_names
    current_file_queue,  \* Option<VecDeque<DosFileName>>
    dta,                 \* the bytes written to the caller's buffer of find_first/find_next
    \* ---- history of the calls made (not program state)
    live,                \* handles returned by a successful create/open, not yet closed
    last,                \* the last call: [op, arg, res, val]
    handed,              \* the <<host name, DOS name>> pairs get_dos_name has returned
    listing,             \* DOS names the last find_first_file was offered, in listing order
    find_spec,           \* Option: the search spec of the last find_first_file
    delivered,           \* names the find calls delivered since the last find_first_file
    calls,               \* number of calls made so far
    \* ---- Machine8086 (the CPU core): what the service reads and writes of it
    regs,                \* [AX, BX, CX, DX, DS, ES], 16 bits each
    flags,               \* [Carry, Zero]
    mem,                 \* guest memory: address -> byte for the bytes written; else 0
    pending,             \* interrupts queued by interrupt_on_next_step
    frames,              \* interrupts dispatched and not yet returned from
    \* ---- DosEventHandler
    result,              \* DosInterruptResult
    key_press_queue,     \* VecDeque<KeyPressInfo>
    port_states,         \* PortStates
    seconds_since_start, \* f64, here in units of 10^-7 s
    \* ---- DosConsole::run
    pc,                  \* "events": polling host events; "steps": in the opcode loop
    steps_left,          \* opcodes left in the batch
    \* ---- history (not program state)
    overflow_checks,     \* the build checks integer overflow (debug) or wraps (release)
    halted,              \* a panic! has aborted the process
    lastport,            \* Option: the value the last handle_port_input returned
    ints,                \* number of calls of the handler's entry points so far
    lastint,             \* Option: the last interrupt handled and the state it found
    pushed,              \* the keys the host pushed, in order
    popped,              \* the <<AH, AL>> pairs successful INT 16h/00h calls returned
    vectors,             \* slot -> <<DX, DS>> of the last INT 21h/25h on it, while the
                         \* slot's four bytes were not written again
    lastio,              \* Option: the direction and the port of the last call, when
                         \* it was a call of handle_port_input or handle_port_output
    cga_log,             \* the reads of port 3DAh (with the value returned) and the
                         \* calls of set_cga_vertial_retrace from outside, in order
    ticks                \* iterations of the run loop so far

fsvars == <<disk, file_handles, real_to_dos_names, dos_to_real_names,
            current_file_queue, dta, live, last, handed, listing, find_spec,
            delivered, calls>>

hwvars == <<regs, flags, mem, pending, frames, result, key_press_queue, port_states,
            seconds_since_start, pc, steps_left, overflow_checks, halted, lastport, ints,
            lastint, pushed, popped, vectors, lastio, cga_log, ticks>>

vars == <<fsvars, hwvars>>

(***************************************************************************)
(* Bounds of the model.                                                    *)
(***************************************************************************)
MaxCalls == 4
MaxSlots == 2

(***************************************************************************)
(* Characters.                                                             *)
(***************************************************************************)
Dot == 46
Tilde == 126
Star == 42
QuestionMark == 63
Underscore == 95
Digit0 == 48
LowerA == 97
LowerZ == 122
Latin1Max == 255
TitleMax == 8
ExtMax == 3

None == <<>>
Some(x) == <<x>>
IsSome(o) == Len(o) = 1
Unwrap(o) == o[1]

Min(a, b) == IF a < b THEN a ELSE b

\* u8::to_ascii_uppercase
ToAsciiUppercase(c) == IF c >= LowerA /\ c <= LowerZ THEN c - 32 ELSE c

\* <[u8]>::to_ascii_uppercase
UpperSeq(s) == [i \in 1..Len(s) |-> ToAsciiUppercase(s[i])]

\* Vec::truncate
Truncate(s, n) == SubSeq(s, 1, Min(Len(s), n))

\* usize::to_string, as bytes
RECURSIVE Decimal(_)
Decimal(n) == IF n < 10 THEN <<Digit0 + n>>
              ELSE Decimal(n \div 10) \o <<Digit0 + (n % 10)>>

\* Iterator::rposition(|c| *c == b'.'): 0 stands for None
RPosition(s, c) ==
    IF \E i \in 1..Len(s) : s[i] = c
    THEN CHOOSE i \in 1..Len(s) : s[i] = c /\ \A j \in (i+1)..Len(s) : s[j] # c
    ELSE 0

\* F of x, with x worked out once
With(x, F(_)) == CHOOSE y \in {F(v) : v \in {x}} : TRUE

\* HashMap::insert
MapInsert(m, k, v) == (k :> v) @@ m

EmptyMap == [x \in {} |-> x]

(***************************************************************************)
(* DosFileName and the file-name translator.                               *)
(***************************************************************************)
DosFileName(title, ext) == [title |-> title, ext |-> ext]

\* split_filename: (title, Option<ext>)
split_filename(filename) ==
    LET dot_pos == RPosition(filename, Dot) IN
    IF dot_pos # 0
    THEN LET after_dot == SubSeq(filename, dot_pos + 1, Len(filename)) IN
         [title |-> SubSeq(filename, 1, dot_pos - 1),
          ext   |-> IF Len(after_dot) <= ExtMax THEN Some(after_dot)
                    ELSE Some(SubSeq(after_dot, 1, ExtMax))]
    ELSE [title |-> filename, ext |-> None]

\* Option::unwrap_or(&[])
UnwrapOrEmpty(o) == IF IsSome(o) THEN Unwrap(o) ELSE <<>>

\* DosFileName::parse
Parse(dos_filename) ==
    With(split_filename(dos_filename), LAMBDA s :
        DosFileName(UpperSeq(s.title), UpperSeq(UnwrapOrEmpty(s.ext))))

\* DosFileName::real_dos_name
real_dos_name(n) == IF n.ext # <<>> THEN n.title \o <<Dot>> \o n.ext ELSE n.title

\* ascii_filename_to_string
ascii_filename_to_string(ascii) == UpperSeq(ascii)

\* the transcoding loop of real_to_dos_name
AsciiName(filename) ==
    [i \in 1..Len(filename) |->
        IF filename[i] <= Latin1Max THEN ToAsciiUppercase(filename[i]) ELSE Underscore]

\* (a variant of IndexedTitle that appends the index text without cutting the title)
IndexedTitle_NoCut(short_title, title_index_text) == short_title \o title_index_text

\* the title of real_to_dos_name, cut so that title and index text fit 8 bytes
IndexedTitle(short_title, title_index_text) ==
    LET current_title_len == Len(short_title) + Len(title_index_text) IN
    (IF current_title_len > TitleMax
     THEN SubSeq(short_title, 1, Len(short_title) - (current_title_len - TitleMax))
     ELSE short_title) \o title_index_text

\* real_to_dos_name(filename, extra_index: Option<usize>)
real_to_dos_name(filename, extra_index) ==
    With(split_filename(AsciiName(filename)), LAMBDA s :
        LET short_title == Truncate(s.title, TitleMax)
            short_ext == Truncate(UnwrapOrEmpty(s.ext), ExtMax)
            title_index_text == IF IsSome(extra_index)
                                THEN <<Tilde>> \o Decimal(Unwrap(extra_index))
                                ELSE <<>>
        IN DosFileName(IndexedTitle(short_title, title_index_text), short_ext))

(***************************************************************************)
(* DirListingCache.  A cache is [r2d, d2r], the two maps.                  *)
(***************************************************************************)
Cache(r2d, d2r) == [r2d |-> r2d, d2r |-> d2r]

\* (a variant of FreeDosName that takes the candidate without the collision loop)
FreeDosName_NoLoop(d2r, real_filename, dos_name, name_index) == dos_name

\* the while loop of get_dos_name: the first candidate that is no key of d2r
RECURSIVE FreeDosName(_, _, _, _)
FreeDosName(d2r, real_filename, dos_name, name_index) ==
    IF dos_name \in DOMAIN d2r
    THEN FreeDosName(d2r, real_filename,
                     real_to_dos_name(real_filename, Some(name_index)), name_index + 1)
    ELSE dos_name

\* DirListingCache::get_dos_name: the cache afterwards and the name returned
get_dos_name(c, real_filename) ==
    IF real_filename \in DOMAIN c.r2d
    THEN [cache |-> c, name |-> c.r2d[real_filename]]
    ELSE With(FreeDosName(c.d2r, real_filename, real_to_dos_name(real_filename, None), 1),
              LAMBDA dos_name :
                  [cache |-> Cache(MapInsert(c.r2d, real_filename, dos_name),
                                   MapInsert(c.d2r, dos_name, real_filename)),
                   name |-> dos_name])

\* DirListingCache::list_dir over the entries read_dir yields: the cache afterwards
\* and the names handed to on_found_file, in order
RECURSIVE list_dir(_, _)
list_dir(c, entries) ==
    IF entries = <<>> THEN [cache |-> c, found |-> <<>>]
    ELSE With(get_dos_name(c, Head(entries)), LAMBDA g :
              With(list_dir(g.cache, Tail(entries)), LAMBDA r :
                  [cache |-> r.cache, found |-> <<g.name>> \o r.found]))

\* DirListingCache::get_real_name: the cache afterwards and the name returned
\* (listed: the names get_dos_name returned to list_dir on the way)
get_real_name(c, entries, dos_filename) ==
    With(list_dir(c, entries), LAMBDA ld :
        LET l == ld.cache
        IN IF dos_filename \in DOMAIN l.d2r
           THEN [cache |-> l, name |-> l.d2r[dos_filename], listed |-> ld.found]
           ELSE With(ascii_filename_to_string(real_dos_name(dos_filename)),
                     LAMBDA real_name :
                         [cache |-> Cache(MapInsert(l.r2d, real_name, dos_filename),
                                          MapInsert(l.d2r, dos_filename, real_name)),
                          name |-> real_name, listed |-> ld.found]))

(***************************************************************************)
(* Wildcard matching.                                                      *)
(***************************************************************************)
\* the for loop of match_against_spec from text position i on; the result is
\* [ok, spec_pos, just_processed_star], ok = FALSE standing for "return false"
RECURSIVE MatchLoop(_, _, _, _, _)
MatchLoop(text, spec, i, spec_pos, just_processed_star) ==
    IF i > Len(text)
    THEN [ok |-> TRUE, spec_pos |-> spec_pos, star |-> just_processed_star]
    ELSE IF spec_pos < Len(spec)
    THEN LET c == text[i]
             spec_char == spec[spec_pos + 1]
         IN IF spec_char = Star
            THEN MatchLoop(text, spec, i + 1,
                           IF spec_pos + 1 < Len(spec) /\ c = spec[spec_pos + 2]
                           THEN spec_pos + 1 ELSE spec_pos,
                           TRUE)
            ELSE IF spec_char = QuestionMark
            THEN MatchLoop(text, spec, i + 1, spec_pos + 1, just_processed_star)
            ELSE IF c = spec_char
            THEN MatchLoop(text, spec, i + 1, spec_pos + 1, just_processed_star)
            ELSE [ok |-> FALSE, spec_pos |-> spec_pos, star |-> just_processed_star]
    ELSE [ok |-> FALSE, spec_pos |-> spec_pos, star |-> just_processed_star]

\* the closure match_against_spec of filename_matches_spec
match_against_spec(text, spec) ==
    With(MatchLoop(text, spec, 1, 0, FALSE), LAMBDA r :
        r.ok /\ (IF r.star THEN r.spec_pos + 1 ELSE r.spec_pos) = Len(spec))

\* filename_matches_spec
filename_matches_spec(filename, search_spec) ==
    With(split_filename(search_spec), LAMBDA s :
        LET title_matches == match_against_spec(filename.title, s.title)
            ext_matches == IF IsSome(s.ext)
                           THEN match_against_spec(filename.ext, Unwrap(s.ext))
                           ELSE TRUE
        IN title_matches /\ ext_matches)

(***************************************************************************)
(* StandardDosFileSystem.                                                  *)
(***************************************************************************)
DtaSize == 128
FilenameOff == 30
ReservedOff == 21
U16 == 65536

\* A 32- or 64-bit quantity is [hi, lo], standing for hi * 2^16 + lo with lo < 2^16
\* (the model checker's integers are 32 bits wide).
Wide(hi, lo) == [hi |-> hi, lo |-> lo]
WideOf(n) == Wide(n \div U16, n % U16)
WideAdd(a, b) == Wide(a.hi + b.hi + ((a.lo + b.lo) \div U16), (a.lo + b.lo) % U16)
\* `as u32`
AsU32(a) == Wide(a.hi % U16, a.lo)
\* a wide position against a small length
WideBelow(a, n) == a.hi = 0 /\ a.lo < n

\* the names read_dir yields, in its order
DirEntries(d) == [i \in 1..Len(d) |-> d[i].name]

\* index (from 1) of the host file called name, 0 if there is none
DiskIndex(d, name) ==
    IF \E i \in 1..Len(d) : d[i].name = name
    THEN CHOOSE i \in 1..Len(d) : d[i].name = name
    ELSE 0

File(name, readable, writable) ==
    [name |-> name, pos |-> Wide(0, 0), readable |-> readable, writable |-> writable]

\* std_file_error_to_dos_error
std_file_error_to_dos_error(kind) ==
    CASE kind = "NotFound" -> "FileNotFound"
      [] kind = "PermissionDenied" -> "AccessDenied"
      [] kind = "AlreadyExists" -> "FileAlreadyExists"
      [] OTHER -> "PathNotFound"


\* StandardDosFileSystem::get_empty_slot: the table afterwards and the slot (from 0)
\* (a variant of get_empty_slot that always pushes a new slot)
get_empty_slot_Push(handles) == [handles |-> Append(handles, None), pos |-> Len(handles)]

get_empty_slot(handles) ==
    IF \E i \in 1..Len(handles) : handles[i] = None
    THEN [handles |-> handles,
          pos |-> (CHOOSE i \in 1..Len(handles) :
                      handles[i] = None /\ \A j \in 1..(i-1) : handles[j] # None) - 1]
    ELSE [handles |-> Append(handles, None), pos |-> Len(handles)]

\* (a variant of HandleOfSlot that returns the slot index itself)
HandleOfSlot_NoOffset(slot) == slot % U16

\* the handle create and open return for a slot: slot as u16 + 1
HandleOfSlot(slot) == (slot % U16) + 1

\* StandardDosFileSystem::get_real_filepath: the cache afterwards and the host name
get_real_filepath(c, d, filename) == get_real_name(c, DirEntries(d), Parse(filename))

\* the pairs <<host name, DOS name>> of a listing
Pairs(entries, found) == {<<entries[i], found[i]>> : i \in 1..Len(entries)}

Call(op, arg, res, val) == [op |-> op, arg |-> arg, res |-> res, val |-> val]

Running == last.res # "panic" /\ calls < MaxCalls

\* the slot a handle names, when it names an open file: Some(index from 1)
OpenSlot(handles, handle) ==
    IF handle # 0 /\ handle <= Len(handles) /\ handles[handle] # None
    THEN Some(handle) ELSE None

\* the part of create and open after get_real_filepath (p): take a slot and, when
\* the host call succeeds, install the file in it
Install(p, op, arg, outcome, file, disk_after) ==
    LET e == get_empty_slot(file_handles)
    IN /\ real_to_dos_names' = p.cache.r2d
       /\ dos_to_real_names' = p.cache.d2r
       /\ handed' = handed \cup Pairs(DirEntries(disk), p.listed)
       /\ IF outcome = "Ok"
          THEN /\ file_handles' = [e.handles EXCEPT ![e.pos + 1] = Some(file)]
               /\ disk' = disk_after
               /\ live' = live \cup {HandleOfSlot(e.pos)}
               /\ last' = Call(op, arg, "Ok", <<HandleOfSlot(e.pos)>>)
          ELSE /\ file_handles' = e.handles
               /\ disk' = disk
               /\ live' = live
               /\ last' = Call(op, arg, std_file_error_to_dos_error(outcome), <<>>)
       /\ calls' = calls + 1
       /\ UNCHANGED <<current_file_queue, dta, listing, find_spec, delivered>>

\* the model bounds the length of the handle table
SlotAvailable ==
    Len(file_handles) < MaxSlots \/ \E k \in 1..Len(file_handles) : file_handles[k] = None

\* StandardDosFileSystem::create; File::create makes the file or truncates it
Create(filename, attributes, fault) ==
    \E p \in {get_real_filepath(Cache(real_to_dos_names, dos_to_real_names), disk, filename)} :
    LET i == DiskIndex(disk, p.name)
    IN /\ Running
       /\ SlotAvailable
       /\ Install(p, "create", filename, fault, File(p.name, FALSE, TRUE),
                  IF i = 0 THEN Append(disk, [name |-> p.name, data |-> <<>>])
                  ELSE [disk EXCEPT ![i].data = <<>>])

\* (a variant of open that never sets the create option)
Open_NeverCreates(filename, access_mode, fault) ==
    \E p \in {get_real_filepath(Cache(real_to_dos_names, dos_to_real_names), disk, filename)} :
    LET i == DiskIndex(disk, p.name)
        read == access_mode \in {"ReadOnly", "ReadWrite"}
        write == access_mode \in {"WriteOnly", "ReadWrite"}
        outcome == IF fault = "Ok" /\ i = 0 THEN "NotFound" ELSE fault
    IN /\ Running
       /\ SlotAvailable
       /\ Install(p, "open", filename, outcome, File(p.name, read, write), disk)

\* StandardDosFileSystem::open; opening a missing file without create is NotFound
Open(filename, access_mode, fault) ==
    \E p \in {get_real_filepath(Cache(real_to_dos_names, dos_to_real_names), disk, filename)} :
    LET i == DiskIndex(disk, p.name)
        read == access_mode \in {"ReadOnly", "ReadWrite"}
        write == access_mode \in {"WriteOnly", "ReadWrite"}
        create == access_mode \in {"WriteOnly", "ReadWrite"}
        outcome == IF fault = "Ok" /\ i = 0 /\ ~create THEN "NotFound" ELSE fault
    IN /\ Running
       /\ SlotAvailable
       /\ Install(p, "open", filename, outcome, File(p.name, read, write),
                  IF i = 0 THEN Append(disk, [name |-> p.name, data |-> <<>>]) ELSE disk)

FsOnlyLast == <<disk, file_handles, real_to_dos_names, dos_to_real_names,
                current_file_queue, dta, live, handed, listing, find_spec, delivered>>

\* (a variant of close that removes the slot from the table, so that the slots
\* after it move down by one)
Close_Compact(handle) ==
    /\ Running
    /\ IF OpenSlot(file_handles, handle) # None
       THEN /\ file_handles' = SubSeq(file_handles, 1, handle - 1)
                                 \o SubSeq(file_handles, handle + 1, Len(file_handles))
            /\ live' = live \ {handle}
            /\ last' = Call("close", <<handle>>, "Ok", <<>>)
       ELSE /\ last' = Call("close", <<handle>>, "InvalidFileHandle", <<>>)
            /\ UNCHANGED <<file_handles, live>>
    /\ calls' = calls + 1
    /\ UNCHANGED <<disk, real_to_dos_names, dos_to_real_names, current_file_queue, dta,
                   handed, listing, find_spec, delivered>>

\* StandardDosFileSystem::close
Close(handle) ==
    /\ Running
    /\ IF OpenSlot(file_handles, handle) # None
       THEN /\ file_handles' = [file_handles EXCEPT ![handle] = None]
            /\ live' = live \ {handle}
            /\ last' = Call("close", <<handle>>, "Ok", <<>>)
       ELSE /\ last' = Call("close", <<handle>>, "InvalidFileHandle", <<>>)
            /\ UNCHANGED <<file_handles, live>>
    /\ calls' = calls + 1
    /\ UNCHANGED <<disk, real_to_dos_names, dos_to_real_names, current_file_queue, dta,
                   handed, listing, find_spec, delivered>>

\* the data of the host file a File refers to
FileData(f) == disk[DiskIndex(disk, f.name)].data

\* (a variant of read that leaves the position of the file where it was)
Read_NoAdvance(handle, count) ==
    /\ Running
    /\ IF OpenSlot(file_handles, handle) # None
       THEN LET f == Unwrap(file_handles[handle])
                data == FileData(f)
                read_count == IF WideBelow(f.pos, Len(data))
                              THEN Min(count, Len(data) - f.pos.lo) ELSE 0
            IN IF f.readable
               THEN /\ UNCHANGED file_handles
                    /\ last' = Call("read", <<handle, count>>, "Ok",
                                    <<read_count % U16>>
                                    \o SubSeq(data, f.pos.lo + 1, f.pos.lo + read_count))
               ELSE /\ last' = Call("read", <<handle, count>>,
                                    std_file_error_to_dos_error("Other"), <<>>)
                    /\ UNCHANGED file_handles
       ELSE /\ last' = Call("read", <<handle, count>>, "InvalidFileHandle", <<>>)
            /\ UNCHANGED file_handles
    /\ calls' = calls + 1
    /\ UNCHANGED <<disk, real_to_dos_names, dos_to_real_names, current_file_queue, dta,
                   live, handed, listing, find_spec, delivered>>

\* StandardDosFileSystem::read into a destination of count bytes; reading a file
\* not opened for reading is a host error of no special kind
Read(handle, count) ==
    /\ Running
    /\ IF OpenSlot(file_handles, handle) # None
       THEN LET f == Unwrap(file_handles[handle])
                data == FileData(f)
                read_count == IF WideBelow(f.pos, Len(data))
                              THEN Min(count, Len(data) - f.pos.lo) ELSE 0
            IN IF f.readable
               THEN /\ file_handles' =
                          [file_handles EXCEPT ![handle] = Some([f EXCEPT !.pos = WideAdd(f.pos, WideOf(read_count))])]
                    /\ last' = Call("read", <<handle, count>>, "Ok",
                                    <<read_count % U16>>
                                    \o SubSeq(data, f.pos.lo + 1, f.pos.lo + read_count))
               ELSE /\ last' = Call("read", <<handle, count>>,
                                    std_file_error_to_dos_error("Other"), <<>>)
                    /\ UNCHANGED file_handles
       ELSE /\ last' = Call("read", <<handle, count>>, "InvalidFileHandle", <<>>)
            /\ UNCHANGED file_handles
    /\ calls' = calls + 1
    /\ UNCHANGED <<disk, real_to_dos_names, dos_to_real_names, current_file_queue, dta,
                   live, handed, listing, find_spec, delivered>>

\* StandardDosFileSystem::write is unimplemented!(): the call panics
Write(handle) ==
    /\ Running
    /\ last' = Call("write", <<handle>>, "panic", <<>>)
    /\ calls' = calls + 1
    /\ UNCHANGED FsOnlyLast

\* the position File::seek moves to: u32 offsets widen to u64 and i64 unchanged
SeekTarget(f, offset, origin) ==
    CASE origin = "Start" -> offset
      [] origin = "Current" -> WideAdd(f.pos, offset)
      [] origin = "End" -> WideAdd(WideOf(Len(FileData(f))), offset)

\* StandardDosFileSystem::seek
Seek(handle, offset, origin) ==
    /\ Running
    /\ IF OpenSlot(file_handles, handle) # None
       THEN LET f == Unwrap(file_handles[handle])
                file_pos == SeekTarget(f, offset, origin)
            IN /\ file_handles' = [file_handles EXCEPT ![handle] = Some([f EXCEPT !.pos = file_pos])]
               /\ last' = Call("seek", <<handle, offset>>, "Ok", <<AsU32(file_pos)>>)
       ELSE /\ last' = Call("seek", <<handle, offset>>, "InvalidFileHandle", <<>>)
            /\ UNCHANGED file_handles
    /\ calls' = calls + 1
    /\ UNCHANGED <<disk, real_to_dos_names, dos_to_real_names, current_file_queue, dta,
                   live, handed, listing, find_spec, delivered>>

\* the names of found that match the spec, in order: the closure find_first_file
\* hands to list_dir
RECURSIVE MatchingNames(_, _)
MatchingNames(found, search_spec) ==
    IF found = <<>> THEN <<>>
    ELSE (IF filename_matches_spec(Head(found), search_spec) THEN <<Head(found)>> ELSE <<>>)
         \o MatchingNames(Tail(found), search_spec)

\* (a variant of the writes of find_next_file that clears the 13 bytes of the name
\* field before the name goes in)
WriteDta_ClearField(buf, next_name) ==
    [k \in DOMAIN buf \cup (ReservedOff..(FilenameOff + 12))
              \cup (ReservedOff..(FilenameOff + Len(next_name))) |->
        IF k >= FilenameOff /\ k < FilenameOff + Len(next_name) THEN next_name[k - FilenameOff + 1]
        ELSE IF k >= ReservedOff /\ k <= FilenameOff + 12 THEN 0
        ELSE IF k = FilenameOff + Len(next_name) THEN 0
        ELSE buf[k]]

\* what find_next_file writes for next_name into the destination.  A buffer is
\* the function from the offsets written so far to the bytes they hold; the
\* other bytes are as the caller left them.
WriteDta(buf, next_name) ==
    [k \in DOMAIN buf \cup (ReservedOff..(FilenameOff + Len(next_name))) |->
        IF k >= FilenameOff /\ k < FilenameOff + Len(next_name) THEN next_name[k - FilenameOff + 1]
        ELSE IF k = FilenameOff + Len(next_name) THEN 0
        ELSE IF k >= ReservedOff /\ k <= FilenameOff THEN 0
        ELSE buf[k]]

\* (a variant of find_next_file that pops the back of the queue)
find_next_file_PopBack(queue, buf) ==
    IF IsSome(queue) /\ Unwrap(queue) # <<>>
    THEN LET q == Unwrap(queue)
             next_name == real_dos_name(q[Len(q)])
         IN [queue |-> Some(SubSeq(q, 1, Len(q) - 1)), dta |-> WriteDta(buf, next_name),
             res |-> "Ok", val |-> <<q[Len(q)]>>]
    ELSE [queue |-> queue, dta |-> buf, res |-> "NoMoreFiles", val |-> <<>>]

\* StandardDosFileSystem::find_next_file on a queue and a destination
find_next_file(queue, buf) ==
    IF IsSome(queue) /\ Unwrap(queue) # <<>>
    THEN LET next_name == real_dos_name(Head(Unwrap(queue))) IN
         IF FilenameOff + Len(next_name) < DtaSize
         THEN [queue |-> Some(Tail(Unwrap(queue))), dta |-> WriteDta(buf, next_name),
               res |-> "Ok", val |-> <<Head(Unwrap(queue))>>]
         ELSE [queue |-> Some(Tail(Unwrap(queue))), dta |-> buf, res |-> "panic", val |-> <<>>]
    ELSE [queue |-> queue, dta |-> buf, res |-> "NoMoreFiles", val |-> <<>>]

\* (a variant of find_first_file that keeps what is left of the old queue)
FindFirst_Append(search_spec) ==
    \E p \in {get_real_filepath(Cache(real_to_dos_names, dos_to_real_names), disk,
                                search_spec)} :
    \E l \in {list_dir(p.cache, DirEntries(disk))} :
    \E n \in {find_next_file(Some(MatchingNames(l.found, search_spec)
                                  \o UnwrapOrEmpty(current_file_queue)), dta)} :
       /\ Running
       /\ real_to_dos_names' = l.cache.r2d
       /\ dos_to_real_names' = l.cache.d2r
       /\ handed' = handed \cup Pairs(DirEntries(disk), p.listed)
                            \cup Pairs(DirEntries(disk), l.found)
       /\ current_file_queue' = n.queue
       /\ dta' = n.dta
       /\ listing' = [i \in 1..Len(disk) |-> [real |-> disk[i].name, dos |-> l.found[i]]]
       /\ find_spec' = Some(search_spec)
       /\ delivered' = n.val
       /\ last' = Call("find_first", search_spec, n.res, n.val)
       /\ calls' = calls + 1
       /\ UNCHANGED <<disk, file_handles, live>>

\* StandardDosFileSystem::find_first_file
FindFirst(search_spec) ==
    \E p \in {get_real_filepath(Cache(real_to_dos_names, dos_to_real_names), disk,
                                search_spec)} :
    \E l \in {list_dir(p.cache, DirEntries(disk))} :
    \E n \in {find_next_file(Some(MatchingNames(l.found, search_spec)), dta)} :
       /\ Running
       /\ real_to_dos_names' = l.cache.r2d
       /\ dos_to_real_names' = l.cache.d2r
       /\ handed' = handed \cup Pairs(DirEntries(disk), p.listed)
                            \cup Pairs(DirEntries(disk), l.found)
       /\ current_file_queue' = n.queue
       /\ dta' = n.dta
       /\ listing' = [i \in 1..Len(disk) |-> [real |-> disk[i].name, dos |-> l.found[i]]]
       /\ find_spec' = Some(search_spec)
       /\ delivered' = n.val
       /\ last' = Call("find_first", search_spec, n.res, n.val)
       /\ calls' = calls + 1
       /\ UNCHANGED <<disk, file_handles, live>>

\* StandardDosFileSystem::find_next_file
FindNext ==
    \E n \in {find_next_file(current_file_queue, dta)} :
    /\ Running
    /\ current_file_queue' = n.queue
    /\ dta' = n.dta
    /\ delivered' = delivered \o n.val
    /\ last' = Call("find_next", <<>>, n.res, n.val)
    /\ calls' = calls + 1
    /\ UNCHANGED <<disk, file_handles, real_to_dos_names, dos_to_real_names, live,
                   handed, listing, find_spec>>

(***************************************************************************)
(* Machine8086 as the service uses it: registers, flags, memory and the    *)
(* interrupts queued for the next step.                                    *)
(***************************************************************************)
MemSize == 1048576
Byte == 256

High(v) == (v \div Byte) % Byte
Low(v) == v % Byte
WithHigh(v, b) == (b % Byte) * Byte + Low(v)
WithLow(v, b) == High(v) * Byte + (b % Byte)

Machine(r, f, m, p, h) == [regs |-> r, flags |-> f, mem |-> m, pending |-> p, halted |-> h]

\* a panic! aborts the process
Panic(m) == [m EXCEPT !.halted = TRUE]

\* memory never written reads as 0
peek_u8(m, addr) == IF addr \in DOMAIN m.mem THEN m.mem[addr] ELSE 0
peek_u16(m, addr) == peek_u8(m, addr) + Byte * peek_u8(m, addr + 1)

\* a write outside the memory is an index out of bounds
poke_u8(machine, addr, value) ==
    With(machine, LAMBDA m :
        IF m.halted THEN m
        ELSE IF addr < MemSize THEN [m EXCEPT !.mem = MapInsert(@, addr, value % Byte)]
        ELSE Panic(m))

\* little-endian
poke_u16(m, addr, value) == poke_u8(poke_u8(m, addr, Low(value)), addr + 1, High(value))

RECURSIVE insert_contiguous_bytes(_, _, _)
insert_contiguous_bytes(machine, bytes, addr) ==
    With(machine, LAMBDA m :
        IF bytes = <<>> THEN m
        ELSE IF Len(bytes) = 1 THEN poke_u8(m, addr, bytes[1])
        ELSE insert_contiguous_bytes(
                 insert_contiguous_bytes(m, SubSeq(bytes, 1, Len(bytes) \div 2), addr),
                 SubSeq(bytes, Len(bytes) \div 2 + 1, Len(bytes)),
                 addr + Len(bytes) \div 2))

set_reg_u16(m, reg, value) == [m EXCEPT !.regs[reg] = value % U16]
set_reg_high(m, reg, value) == [m EXCEPT !.regs[reg] = WithHigh(@, value)]
set_reg_low(m, reg, value) == [m EXCEPT !.regs[reg] = WithLow(@, value)]
set_flag(m, flag, on) == [m EXCEPT !.flags[flag] = on]

\* (seg << 4) + off
get_seg_reg(m, seg, off) == m.regs[seg] * 16 + m.regs[off]

\* the bytes from addr up to the first 0
RECURSIVE read_null_terminated_string(_, _)
read_null_terminated_string(m, addr) ==
    IF peek_u8(m, addr) = 0 THEN <<>>
    ELSE <<peek_u8(m, addr)>> \o read_null_terminated_string(m, addr + 1)

interrupt_on_next_step(m, index) == [m EXCEPT !.pending = Append(@, index)]

(***************************************************************************)
(* The BIOS data area, the program segment prefix and the loaded image.    *)
(***************************************************************************)
BIOS_START == 64 * 16
bios_off(offset) == BIOS_START + offset

BIOS_EQUIPMENT == bios_off(10)
BIOS_MEMORY_SIZE_KB == bios_off(19)
BIOS_VIDEO_MODE_INDEX == bios_off(73)
BIOS_TEXT_COLUMN_COUNT == bios_off(74)
BIOS_TEXT_PAGE_BYTES == bios_off(76)
BIOS_CURSOR_POSITION == [page \in 0..7 |-> bios_off(80 + 2 * page)]
BIOS_ACTIVE_VIDEO_PAGE == bios_off(98)
BIOS_VIDEO_IO_PORT_ADDRESS == bios_off(99)
BIOS_SYSTEM_TIMER_COUNTER_LOW == bios_off(108)
BIOS_SYSTEM_TIMER_COUNTER_HIGH == bios_off(110)
BIOS_TEXT_ROW_COUNT == bios_off(132)
BIOS_CHAR_HEIGHT == bios_off(133)

initialise_bios_data_area(m) ==
    LET m1 == poke_u16(m, BIOS_EQUIPMENT, 97)
        m2 == poke_u16(m1, BIOS_MEMORY_SIZE_KB, 640)
        m3 == poke_u16(m2, BIOS_TEXT_COLUMN_COUNT, 80)
    IN poke_u16(m3, BIOS_VIDEO_IO_PORT_ADDRESS, 54275)

EXE_PARAGRAPH_BYTES == 16
EXE_PROGRAM_SEGMENT_PREFIX_PARAGRAPHS == 16
EXE_ORIGIN_PARAGRAPH == 256

initialise_dos_program_segment_prefix(m, command_line_tail) ==
    LET psp_start == EXE_ORIGIN_PARAGRAPH * EXE_PARAGRAPH_BYTES
        m1 == poke_u16(m, psp_start + 2, 40960)
        m2 == poke_u8(m1, psp_start + 128, Len(command_line_tail) + 1)
        m3 == insert_contiguous_bytes(m2, command_line_tail, psp_start + 129)
    IN IF Len(command_line_tail) + 1 > 255 THEN m1
       ELSE poke_u8(m3, psp_start + 129 + Len(command_line_tail), 13)

\* u16 + u16: a panic where overflow is checked, else the sum modulo 2^16
AddU16(m, reg, a, b, checked) ==
    IF a + b >= U16 /\ checked THEN Panic(m)
    ELSE set_reg_u16(m, reg, a + b)

\* MzHeader::load_into_machine
load_into_machine(m, header, exe_data, checked) ==
    LET segment_offset == EXE_ORIGIN_PARAGRAPH + EXE_PROGRAM_SEGMENT_PREFIX_PARAGRAPHS
        m1 == set_reg_u16(set_reg_u16(m, "SP", header.initial_sp), "IP", header.initial_ip)
        m2 == AddU16(m1, "SS", header.initial_ss, segment_offset, checked)
        m3 == IF m2.halted THEN m2
              ELSE AddU16(m2, "CS", header.initial_cs, segment_offset, checked)
        m4 == set_reg_u16(set_reg_u16(m3, "DS", EXE_ORIGIN_PARAGRAPH), "ES", EXE_ORIGIN_PARAGRAPH)
        m5 == insert_contiguous_bytes(m4, exe_data,
                                      (EXE_ORIGIN_PARAGRAPH + 16) * EXE_PARAGRAPH_BYTES)
    IN IF m3.halted THEN m3
       ELSE initialise_dos_program_segment_prefix(initialise_bios_data_area(m5), <<>>)

\* EGA_MODES[0], the video mode the handler is built with
video_mode == [mode_index |-> 3, text_dims |-> <<80, 25>>, char_pixel_dims |-> <<8, 14>>,
               text_address |-> 753664, text_page_count |-> 8, text_page_bytes |-> 4096]

\* DosEventHandler::init_machine
init_machine(m) ==
    LET m1 == poke_u8(m, BIOS_VIDEO_MODE_INDEX, video_mode.mode_index)
        m2 == poke_u16(m1, BIOS_TEXT_COLUMN_COUNT, video_mode.text_dims[1])
        m3 == poke_u16(m2, BIOS_TEXT_PAGE_BYTES, video_mode.text_page_bytes)
        m4 == poke_u16(m3, BIOS_VIDEO_IO_PORT_ADDRESS, 980)
        m5 == poke_u16(m4, BIOS_TEXT_ROW_COUNT, video_mode.text_dims[2])
    IN poke_u16(m5, BIOS_CHAR_HEIGHT, video_mode.char_pixel_dims[2])

(***************************************************************************)
(* DosEventHandler: the interrupt handlers, as changes of the machine.     *)
(***************************************************************************)
\* DosErrorCode as u16
DosErrorCode(name) ==
    CASE name = "FileNotFound" -> 2
      [] name = "PathNotFound" -> 3
      [] name = "NoFileHandlesLeft" -> 4
      [] name = "AccessDenied" -> 5
      [] name = "InvalidFileHandle" -> 6
      [] name = "InsufficientMemory" -> 8
      [] name = "InvalidFileAccessMode" -> 12
      [] name = "InvalidData" -> 13
      [] name = "NoMoreFiles" -> 18
      [] name = "FileAlreadyExists" -> 80

get_page_origin_address(m, video_page) ==
    video_mode.text_address + video_page * peek_u16(m, BIOS_TEXT_PAGE_BYTES)

get_screen_character_address(m, page_origin_address, x, y) ==
    page_origin_address + ((y * peek_u16(m, BIOS_TEXT_COLUMN_COUNT)) + x) * 2

\* (a variant of ClearCell that stores the attribute only)
ClearCell_KeepChar(machine, page_addr, x, y, attributes) ==
    With(machine, LAMBDA m :
        poke_u8(m, get_screen_character_address(m, page_addr, x, y) + 1, attributes))

\* one cell of the clearing loops: char 0, then the attribute
ClearCell(machine, page_addr, x, y, attributes) ==
    With(machine, LAMBDA m :
        LET char_addr == get_screen_character_address(m, page_addr, x, y)
        IN poke_u8(poke_u8(m, char_addr, 0), char_addr + 1, attributes))

\* for x in x ..= right, in a clearing loop: the cells in ascending order, the left
\* half of the range before the right half
RECURSIVE ClearRow(_, _, _, _, _, _)
ClearRow(machine, page_addr, x, right, y, attributes) ==
    With(machine, LAMBDA m :
        IF x > right \/ m.halted THEN m
        ELSE IF x = right THEN ClearCell(m, page_addr, x, y, attributes)
        ELSE ClearRow(ClearRow(m, page_addr, x, (x + right) \div 2, y, attributes),
                      page_addr, (x + right) \div 2 + 1, right, y, attributes))

\* for y in y ..= bottom, in a clearing loop: the rows in ascending order, the upper
\* half of the range before the lower half
RECURSIVE ClearRows(_, _, _, _, _, _, _)
ClearRows(machine, page_addr, y, bottom, left, right, attributes) ==
    With(machine, LAMBDA m :
        IF y > bottom \/ m.halted THEN m
        ELSE IF y = bottom THEN ClearRow(m, page_addr, left, right, y, attributes)
        ELSE ClearRows(ClearRows(m, page_addr, y, (y + bottom) \div 2, left, right,
                                 attributes),
                       page_addr, (y + bottom) \div 2 + 1, bottom, left, right, attributes))

\* y + 1 on a u8
NextRow(y, checked) == IF y + 1 < Byte THEN Some(y + 1)
                               ELSE IF checked THEN None ELSE Some(0)

\* one cell of the copying loop: the word of the row below goes to this row
CopyCell(machine, page_addr, x, y, checked) ==
    With(machine, LAMBDA m :
        LET below == NextRow(y, checked)
            from_addr == get_screen_character_address(m, page_addr, x, Unwrap(below))
            to_addr == get_screen_character_address(m, page_addr, x, y)
        IN IF below = None THEN Panic(m)
           ELSE IF from_addr + 1 >= MemSize THEN Panic(m)
           ELSE poke_u16(m, to_addr, peek_u16(m, from_addr)))

RECURSIVE CopyRow(_, _, _, _, _, _)
CopyRow(machine, page_addr, x, right, y, checked) ==
    With(machine, LAMBDA m :
        IF x > right \/ m.halted THEN m
        ELSE CopyRow(CopyCell(m, page_addr, x, y, checked), page_addr, x + 1, right, y,
                     checked))

\* for y in y ..= last_row, in the copying loop: the rows in ascending order, the
\* upper half of the range before the lower half
RECURSIVE CopyRows(_, _, _, _, _, _, _)
CopyRows(machine, page_addr, y, last_row, left, right, checked) ==
    With(machine, LAMBDA m :
        IF y > last_row \/ m.halted THEN m
        ELSE IF y = last_row THEN CopyRow(m, page_addr, left, right, y, checked)
        ELSE CopyRows(CopyRows(m, page_addr, y, (y + last_row) \div 2, left, right,
                               checked),
                      page_addr, (y + last_row) \div 2 + 1, last_row, left, right, checked))

\* handle_interrupt_10h, AH = 06h
ScrollUp(m, checked) ==
    LET video_page == peek_u8(m, BIOS_ACTIVE_VIDEO_PAGE)
        num_lines == Low(m.regs.AX)
        blank_char_attributes == High(m.regs.BX)
        rect_top == High(m.regs.CX)
        rect_left == Low(m.regs.CX)
        rect_bottom == High(m.regs.DX)
        rect_right == Low(m.regs.DX)
        page_addr == get_page_origin_address(m, video_page)
        \* rect_bottom - num_lines and rect_bottom - num_lines + 1 on u8
        last_copied == (rect_bottom - num_lines) % Byte
        first_blank == (last_copied + 1) % Byte
    IN IF num_lines = 0
       THEN ClearRows(m, page_addr, rect_top, rect_bottom, rect_left, rect_right,
                      blank_char_attributes)
       ELSE IF rect_bottom < num_lines /\ checked THEN Panic(m)
       ELSE With(CopyRows(m, page_addr, rect_top, last_copied, rect_left, rect_right,
                          checked),
                 LAMBDA copied :
                     IF copied.halted THEN copied
                     ELSE IF last_copied + 1 >= Byte /\ checked THEN Panic(copied)
                     ELSE ClearRows(copied, page_addr, first_blank, rect_bottom, rect_left,
                                    rect_right, blank_char_attributes))

\* handle_interrupt_10h, AH = 02h
SetCursor(m) ==
    LET bh == High(m.regs.BX)
        video_page == IF bh = 255 THEN peek_u8(m, BIOS_ACTIVE_VIDEO_PAGE) ELSE bh
        cursor_pos_data == High(m.regs.DX) * Byte + Low(m.regs.DX)
    IN IF video_page \in DOMAIN BIOS_CURSOR_POSITION
       THEN poke_u16(m, BIOS_CURSOR_POSITION[video_page], cursor_pos_data)
       ELSE Panic(m)

\* handle_interrupt_10h, AH = 08h
ReadCharAtCursor(m) ==
    LET addr == video_mode.text_address + ((Low(m.regs.BX) * 80) + High(m.regs.BX)) * 2
        m1 == set_reg_low(m, "AX", peek_u8(m, addr))
    IN set_reg_high(m1, "BX", peek_u8(m1, addr + 1))

\* handle_interrupt_10h, AH = 0Fh
GetVideoMode(m) ==
    LET m1 == set_reg_high(m, "AX", peek_u16(m, BIOS_TEXT_COLUMN_COUNT) % Byte)
        m2 == set_reg_low(m1, "AX", 3)
    IN set_reg_high(m2, "BX", peek_u8(m2, BIOS_ACTIVE_VIDEO_PAGE))

handle_interrupt_10h(m, checked) ==
    LET video_int == High(m.regs.AX) IN
    CASE video_int \in {0, 1} -> m
      [] video_int = 2 -> SetCursor(m)
      [] video_int = 6 -> ScrollUp(m, checked)
      [] video_int = 8 -> ReadCharAtCursor(m)
      [] video_int = 15 -> GetVideoMode(m)
      [] video_int = 17 -> IF Low(m.regs.AX) = 48 THEN set_flag(m, "Carry", TRUE) ELSE Panic(m)
      [] video_int = 18 -> IF Low(m.regs.BX) = 48 THEN m ELSE Panic(m)
      [] OTHER -> Panic(m)

\* (a variant of TimerTick that increments the low word and never carries)
TimerTick_NoCarry(m) ==
    LET timer_low == peek_u16(m, BIOS_SYSTEM_TIMER_COUNTER_LOW)
    IN interrupt_on_next_step(poke_u16(m, BIOS_SYSTEM_TIMER_COUNTER_LOW,
                                       (timer_low + 1) % U16), 28)

\* (a variant of the timer tick that does not emit the user timer tick)
TimerTick_NoUserTick(m) ==
    LET timer == Wide(peek_u16(m, BIOS_SYSTEM_TIMER_COUNTER_HIGH),
                      peek_u16(m, BIOS_SYSTEM_TIMER_COUNTER_LOW))
        new_timer == AsU32(WideAdd(timer, Wide(0, 1)))
        m1 == poke_u16(m, BIOS_SYSTEM_TIMER_COUNTER_LOW, new_timer.lo)
    IN poke_u16(m1, BIOS_SYSTEM_TIMER_COUNTER_HIGH, new_timer.hi)

\* handle_interrupt, 08h: the 32-bit counter goes up by one and wraps, 1Ch is queued
TimerTick(m) ==
    LET timer == Wide(peek_u16(m, BIOS_SYSTEM_TIMER_COUNTER_HIGH),
                      peek_u16(m, BIOS_SYSTEM_TIMER_COUNTER_LOW))
        new_timer == AsU32(WideAdd(timer, Wide(0, 1)))
        m1 == poke_u16(m, BIOS_SYSTEM_TIMER_COUNTER_LOW, new_timer.lo)
        m2 == poke_u16(m1, BIOS_SYSTEM_TIMER_COUNTER_HIGH, new_timer.hi)
    IN interrupt_on_next_step(m2, 28)

KeyPressInfo(scan_code, ascii_char) == [scan_code |-> scan_code, ascii_char |-> ascii_char]

\* (a variant of pop_front that takes the newest key)
pop_front_Newest(queue) ==
    IF queue = <<>> THEN [key |-> None, rest |-> queue]
    ELSE [key |-> Some(queue[Len(queue)]), rest |-> SubSeq(queue, 1, Len(queue) - 1)]

\* VecDeque::pop_front: the key taken, if any, and the queue afterwards
pop_front(queue) ==
    IF queue = <<>> THEN [key |-> None, rest |-> queue]
    ELSE [key |-> Some(Head(queue)), rest |-> Tail(queue)]

\* handle_interrupt, 16h; key is what pop_front gave when AH = 00h
Keyboard(m, key) ==
    LET key_int == High(m.regs.AX) IN
    CASE key_int = 0 ->
           IF key # None
           THEN set_reg_low(set_reg_high(m, "AX", Unwrap(key).scan_code), "AX",
                            Unwrap(key).ascii_char)
           ELSE m
      [] key_int = 1 -> set_reg_u16(set_flag(m, "Zero", FALSE), "AX", 0)
      [] OTHER -> Panic(m)

\* seconds_since_start is kept in units of 10^-7 s; one run-loop iteration adds 54.9451 ms
SecondUnits == 10000000
TickUnits == 549451

\* handle_interrupt, 21h/2Ch
GetSystemTime(m, seconds) ==
    LET hundredths == (seconds \div (SecondUnits \div 100)) % 100
        second == (seconds \div SecondUnits) % 60
        minute == ((seconds \div SecondUnits) \div 60) % 60
        hour == (((seconds \div SecondUnits) \div 60) \div 60) % 24
        m1 == set_reg_low(set_reg_high(m, "CX", hour), "CX", minute)
    IN set_reg_low(set_reg_high(m1, "DX", second), "DX", hundredths)

INTERRUPT_TABLE_ENTRY_BYTES == 4

\* (a variant of SetVector that stores the segment first and the offset second)
SetVector_Swapped(m) ==
    LET entry_addr == Low(m.regs.AX) * INTERRUPT_TABLE_ENTRY_BYTES
    IN poke_u16(poke_u16(m, entry_addr, m.regs.DS), entry_addr + 2, m.regs.DX)

\* handle_interrupt, 21h/25h
SetVector(m) ==
    LET entry_addr == Low(m.regs.AX) * INTERRUPT_TABLE_ENTRY_BYTES
    IN poke_u16(poke_u16(m, entry_addr, m.regs.DX), entry_addr + 2, m.regs.DS)

\* handle_interrupt, 21h/35h
GetVector(m) ==
    LET entry_addr == Low(m.regs.AX) * INTERRUPT_TABLE_ENTRY_BYTES
    IN set_reg_u16(set_reg_u16(m, "BX", peek_u16(m, entry_addr)), "ES",
                   peek_u16(m, entry_addr + 2))

\* (a variant of FileError that leaves the carry flag as it is)
FileError_NoCarry(m, name) == set_reg_u16(m, "AX", DosErrorCode(name))

\* Err(error_code) of a file call: CF set, AX the code
FileError(m, name) == set_reg_u16(set_flag(m, "Carry", TRUE), "AX", DosErrorCode(name))

\* (a variant of the access mode that takes every other AL as read-only)
AccessMode_Lenient(al) ==
    CASE al = 0 -> Some("ReadOnly") [] al = 1 -> Some("WriteOnly")
      [] al = 2 -> Some("ReadWrite") [] OTHER -> Some("ReadOnly")

\* AL of 21h/3Dh as a DosFileAccessMode
AccessMode(al) ==
    CASE al = 0 -> Some("ReadOnly") [] al = 1 -> Some("WriteOnly")
      [] al = 2 -> Some("ReadWrite") [] OTHER -> None

\* AL of 21h/42h as a DosFileSeekOrigin
SeekOrigin(al) ==
    CASE al = 0 -> Some("Start") [] al = 1 -> Some("Current")
      [] al = 2 -> Some("End") [] OTHER -> None

\* the file-system call a 21h request makes, "none" when it makes none
FileCall(m) ==
    LET dos_int == High(m.regs.AX)
        al == Low(m.regs.AX)
        destination_addr == get_seg_reg(m, "DS", "DX")
    IN CASE dos_int = 60 -> "create"
         [] dos_int = 61 /\ AccessMode(al) # None -> "open"
         [] dos_int = 63 /\ destination_addr <= MemSize
                         /\ MemSize - destination_addr >= m.regs.CX -> "read"
         [] dos_int = 66 /\ SeekOrigin(al) # None -> "seek"
         [] OTHER -> "none"

\* handle_interrupt, 21h, the requests that make no file-system call
DosRequest(m, seconds) ==
    LET dos_int == High(m.regs.AX)
        al == Low(m.regs.AX)
    IN CASE dos_int = 37 -> SetVector(m)
         [] dos_int = 44 -> GetSystemTime(m, seconds)
         [] dos_int = 51 -> set_reg_low(m, "DX", 0)
         [] dos_int = 53 -> GetVector(m)
         [] dos_int = 61 -> FileError(m, "InvalidFileAccessMode")
         [] dos_int = 63 -> IF get_seg_reg(m, "DS", "DX") > MemSize THEN Panic(m)
                            ELSE FileError(m, "InsufficientMemory")
         [] dos_int = 66 -> FileError(m, "InvalidData")
         [] dos_int = 68 -> IF al = 0 THEN set_flag(set_reg_u16(m, "AX", 1), "Carry", TRUE)
                            ELSE m
         [] OTHER -> Panic(m)

\* handle_interrupt, 21h, after the file-system call returned (call is its record)
FileReturn(m, call) ==
    IF call.res # "Ok" THEN FileError(m, call.res)
    ELSE LET ok == set_flag(m, "Carry", FALSE) IN
         CASE call.op \in {"create", "open"} -> set_reg_u16(ok, "AX", call.val[1])
           [] call.op = "read" ->
                set_reg_u16(insert_contiguous_bytes(ok, Tail(call.val),
                                                    get_seg_reg(m, "DS", "DX")),
                            "AX", call.val[1])
           [] call.op = "seek" ->
                set_reg_u16(set_reg_u16(ok, "AX", call.val[1].lo), "DX", call.val[1].hi)

\* handle_interrupt, every request that makes no file-system call
Dispatch(m, interrupt_index, key, seconds, checked) ==
    CASE interrupt_index = 8 -> TimerTick(m)
      [] interrupt_index = 16 -> handle_interrupt_10h(m, checked)
      [] interrupt_index \in {20, 28} -> m
      [] interrupt_index = 22 -> Keyboard(m, key)
      [] interrupt_index = 33 -> DosRequest(m, seconds)
      [] interrupt_index = 51 -> IF m.regs.AX = 0 THEN m ELSE Panic(m)
      [] OTHER -> Panic(m)

\* (a variant of EntryResult that keeps what the previous call left)
EntryResult_Kept(previous) == previous

\* self.result = DosInterruptResult::ShouldReturn, on entry to handle_interrupt
EntryResult(previous) == "ShouldReturn"

\* the result field when the handler returns, entry being its value after entry
HandlerResult(interrupt_index, ah, key, entry) ==
    IF interrupt_index = 22 /\ ah = 0 /\ key = None THEN "ShouldBlockForKeypress"
    ELSE IF interrupt_index = 33 /\ ah = 44 THEN "ShouldReturnAndWaitForEvents"
    ELSE entry

(***************************************************************************)
(* DosEventHandler's entry points, as the machine calls them.              *)
(***************************************************************************)
\* the history of vectors after a step that took the memory from before to after:
\* a slot stays while its four bytes stay, and set, if any, is the slot just set
VectorsAfter(v, before, after, set) ==
    LET same(a) == peek_u8([mem |-> before], a) = peek_u8([mem |-> after], a)
        kept == {s \in DOMAIN v : \A k \in 0..3 : same(s * INTERRUPT_TABLE_ENTRY_BYTES + k)}
        base == [s \in kept |-> v[s]]
    IN IF set = None THEN base
       ELSE MapInsert(base, Unwrap(set).slot, <<Unwrap(set).dx, Unwrap(set).ds>>)

SetMachine(m) ==
    /\ regs' = m.regs
    /\ flags' = m.flags
    /\ mem' = m.mem
    /\ pending' = m.pending
    /\ halted' = m.halted

\* EventHandler::handle_interrupt, entered with registers r and the interrupts
\* queued still waiting; fault is what the host answers to a create or open
handle_interrupt(interrupt_index, r, queued, fault) ==
    LET m == Machine(r, flags, mem, queued, FALSE)
        ah == High(r.AX)
        al == Low(r.AX)
        takes_key == interrupt_index = 22 /\ ah = 0
        taken == IF takes_key THEN pop_front(key_press_queue)
                 ELSE [key |-> None, rest |-> key_press_queue]
        file_call == IF interrupt_index = 33 THEN FileCall(m) ELSE "none"
        filename == read_null_terminated_string(m, get_seg_reg(m, "DS", "DX"))
    IN /\ ~halted
       /\ lastint' = Some([index |-> interrupt_index, ah |-> ah, al |-> al,
                           empty |-> key_press_queue = <<>>, before |-> result,
                           entered |-> frames])
       /\ CASE file_call = "create" ->
                  /\ Create(filename, r.CX, fault)
                  /\ SetMachine(FileReturn(m, last'))
            [] file_call = "open" ->
                  /\ Open(filename, Unwrap(AccessMode(al)), fault)
                  /\ SetMachine(FileReturn(m, last'))
            [] file_call = "read" ->
                  /\ Read(r.BX, r.CX)
                  /\ SetMachine(FileReturn(m, last'))
            [] file_call = "seek" ->
                  /\ Seek(r.BX, Wide(r.CX, r.DX), Unwrap(SeekOrigin(al)))
                  /\ SetMachine(FileReturn(m, last'))
            [] OTHER ->
                  /\ SetMachine(Dispatch(m, interrupt_index, taken.key, seconds_since_start,
                                         overflow_checks))
                  /\ UNCHANGED fsvars
       /\ key_press_queue' = taken.rest
       /\ result' = HandlerResult(interrupt_index, ah, taken.key, EntryResult(result))
       /\ popped' = IF takes_key /\ result' # "ShouldBlockForKeypress"
                    THEN Append(popped, <<High(regs'.AX), Low(regs'.AX)>>)
                    ELSE popped
       /\ vectors' = VectorsAfter(vectors, mem, mem',
                                  IF interrupt_index = 33 /\ ah = 37 /\ ~halted'
                                  THEN Some([slot |-> al, dx |-> r.DX, ds |-> r.DS])
                                  ELSE None)
       /\ ints' = ints + 1
       /\ lastio' = None
       /\ UNCHANGED <<port_states, seconds_since_start, lastport, pushed, overflow_checks,
                      cga_log>>

\* v with bit k set, cleared, inverted
Bit(v, k) == (v \div (2 ^ k)) % 2
SetBit(v, k) == IF Bit(v, k) = 1 THEN v ELSE v + 2 ^ k
ClearBit(v, k) == IF Bit(v, k) = 1 THEN v - 2 ^ k ELSE v
ToggleBit(v, k) == IF Bit(v, k) = 1 THEN v - 2 ^ k ELSE v + 2 ^ k

PortStates(port_61, crt_index, cga_status, cga_palette) ==
    [port_61 |-> port_61, crt_index_register |-> crt_index,
     cga_status_register |-> cga_status, cga_palette_register |-> cga_palette]

\* the entries of cga_log
CgaRead(status) == [kind |-> "read", value |-> status]
CgaCommand(vertical_retrace) ==
    [kind |-> "command", value |-> IF vertical_retrace THEN 1 ELSE 0]

\* (a variant of set_cga_vertial_retrace that does not toggle bit 0)
set_cga_vertial_retrace_NoToggle(ps, vertical_retrace) ==
    IF vertical_retrace
    THEN [ps EXCEPT !.cga_status_register = SetBit(@, 3)]
    ELSE [ps EXCEPT !.cga_status_register = ClearBit(@, 3)]

\* DosEventHandler::set_cga_vertial_retrace
set_cga_vertial_retrace(ps, vertical_retrace) ==
    IF vertical_retrace
    THEN [ps EXCEPT !.cga_status_register = SetBit(@, 3)]
    ELSE [ps EXCEPT !.cga_status_register = ToggleBit(ClearBit(@, 3), 0)]

HandlerOnly == <<regs, flags, mem, pending, result, key_press_queue, seconds_since_start,
                 lastint, pushed, popped, vectors, overflow_checks>>

\* EventHandler::handle_port_input
handle_port_input(port_index) ==
    /\ ~halted
    /\ CASE port_index = 97 ->
              /\ lastport' = Some(port_states.port_61)
              /\ UNCHANGED <<port_states, halted, cga_log>>
         [] port_index = 513 ->
              /\ lastport' = Some(240)
              /\ UNCHANGED <<port_states, halted, cga_log>>
         [] port_index = 986 ->
              /\ lastport' = Some(port_states.cga_status_register)
              /\ port_states' = set_cga_vertial_retrace(port_states, FALSE)
              /\ cga_log' = Append(cga_log, CgaRead(port_states.cga_status_register))
              /\ UNCHANGED halted
         [] OTHER ->
              /\ halted' = TRUE
              /\ UNCHANGED <<port_states, lastport, cga_log>>
    /\ lastio' = Some([dir |-> "in", port |-> port_index])
    /\ ints' = ints + 1
    /\ UNCHANGED HandlerOnly
    /\ UNCHANGED fsvars

\* EventHandler::handle_port_output
handle_port_output(port_index, value) ==
    /\ ~halted
    /\ CASE port_index = 97 ->
              /\ port_states' = [port_states EXCEPT !.port_61 = value]
              /\ UNCHANGED halted
         [] port_index \in {513, 981} -> UNCHANGED <<port_states, halted>>
         [] port_index = 980 ->
              /\ port_states' = [port_states EXCEPT !.crt_index_register = value]
              /\ UNCHANGED halted
         [] port_index = 985 ->
              /\ port_states' = [port_states EXCEPT !.cga_palette_register = value]
              /\ UNCHANGED halted
         [] OTHER ->
              /\ halted' = TRUE
              /\ UNCHANGED port_states
    /\ UNCHANGED <<lastport, cga_log>>
    /\ lastio' = Some([dir |-> "out", port |-> port_index])
    /\ ints' = ints + 1
    /\ UNCHANGED HandlerOnly
    /\ UNCHANGED fsvars

(***************************************************************************)
(* DosConsole::run: host events, then a batch of machine steps, for ever.  *)
(***************************************************************************)
MaxTicks == 3
MaxKeys == 3
MaxInts == 2
\* opcodes per batch; the program runs 10000
num_opcodes_to_exec == 4

SCANCODE_LETTERS == <<113, 119, 101, 114, 116, 121, 117, 105, 111, 112, 97, 115, 100,
                      102, 103, 104, 106, 107, 108, 122, 120, 99, 118, 98, 110, 109>>

\* the Keycode values of the sdl2 crate
KeycodeSlash == 47
KeycodeReturn == 13
KeycodeEscape == 27
KeycodeSpace == 32
KeycodeTab == 9
ScancodeMask == 1073741824
KeycodeRight == ScancodeMask + 79
KeycodeLeft == ScancodeMask + 80
KeycodeDown == ScancodeMask + 81
KeycodeUp == ScancodeMask + 82
KeycodePageUp == ScancodeMask + 75
KeycodePageDown == ScancodeMask + 78
KeycodeF1 == ScancodeMask + 58
KeycodeF12 == ScancodeMask + 69

\* scancode_to_key_info: Option<KeyPressInfo>
scancode_to_key_info(keycode, shifted) ==
    LET key_index == keycode % Byte
        position == CHOOSE i \in 1..Len(SCANCODE_LETTERS) : SCANCODE_LETTERS[i] = key_index
        codes ==
            IF key_index \in 97..122 THEN <<(position - 1) + 16, key_index, key_index + 32>>
            ELSE IF keycode = KeycodeSlash THEN <<53, 47, 63>>
            ELSE IF keycode = KeycodeDown THEN <<80, 0, 50>>
            ELSE IF keycode = KeycodeUp THEN <<72, 0, 56>>
            ELSE IF keycode = KeycodeLeft THEN <<75, 0, 52>>
            ELSE IF keycode = KeycodeRight THEN <<77, 0, 54>>
            ELSE IF keycode = KeycodeReturn THEN <<28, 13, 13>>
            ELSE IF keycode = KeycodeEscape THEN <<1, 27, 27>>
            ELSE IF keycode = KeycodeSpace THEN <<57, 32, 32>>
            ELSE IF keycode = KeycodeTab THEN <<15, 9, 0>>
            ELSE IF keycode = KeycodePageUp THEN <<73, 0, 57>>
            ELSE IF keycode = KeycodePageDown THEN <<81, 0, 51>>
            ELSE IF key_index \in (KeycodeF1 % Byte)..(KeycodeF12 % Byte)
                 THEN <<59 + (key_index - (KeycodeF1 % Byte)), 0, 0>>
            ELSE <<>>
    IN IF codes = <<>> THEN None
       ELSE Some(KeyPressInfo(codes[1], IF shifted THEN codes[3] ELSE codes[2]))

\* VecDeque::push_back
push_back(queue, key_info) == Append(queue, key_info)

\* the event loop on Event::KeyDown
HostKeyDown(keycode, shifted) ==
    LET key_info == scancode_to_key_info(keycode, shifted) IN
    /\ ~halted
    /\ pc = "events"
    /\ Len(pushed) < MaxKeys
    /\ IF key_info # None
       THEN /\ key_press_queue' = push_back(key_press_queue, Unwrap(key_info))
            /\ pushed' = Append(pushed, Unwrap(key_info))
       ELSE UNCHANGED <<key_press_queue, pushed>>
    /\ UNCHANGED <<regs, flags, mem, pending, frames, result, port_states,
                   seconds_since_start, pc, steps_left, overflow_checks, halted, lastport,
                   ints, lastint, popped, vectors, lastio, cga_log, ticks>>
    /\ UNCHANGED fsvars

\* the run loop between the event loop and the step loop
StartBatch ==
    /\ ~halted
    /\ pc = "events"
    /\ ticks < MaxTicks
    /\ pending' = Append(pending, 8)
    /\ seconds_since_start' = seconds_since_start + TickUnits
    /\ port_states' = set_cga_vertial_retrace(port_states, TRUE)
    /\ cga_log' = Append(cga_log, CgaCommand(TRUE))
    /\ pc' = "steps"
    /\ steps_left' = num_opcodes_to_exec
    /\ ticks' = ticks + 1
    /\ UNCHANGED <<regs, flags, mem, frames, result, key_press_queue, overflow_checks,
                   halted, lastport, ints, lastint, pushed, popped, vectors, lastio>>
    /\ UNCHANGED fsvars

\* (a variant of ReturnsFromInterrupt in which the driver always returns)
ReturnsFromInterrupt_Always(res) == TRUE

\* the results on which the step loop calls return_from_interrupt
ReturnsFromInterrupt(res) == res \in {"ShouldReturn", "ShouldReturnAndWaitForEvents"}

\* the results on which the step loop breaks
BreaksBatch(res) == res \in {"ShouldReturnAndWaitForEvents", "ShouldBlockForKeypress"}

\* the step loop after a step: the batch goes on while opcodes are left
LoopOn(broke) ==
    IF ~broke /\ steps_left > 1
    THEN pc' = "steps" /\ steps_left' = steps_left - 1
    ELSE pc' = "events" /\ steps_left' = 0

\* a step that ends in StepResult::Interrupt: the machine enters the interrupt
\* (entered is frames with this interrupt on top), the handler runs, and the step
\* loop returns from the interrupt or leaves it entered
InterruptStep(interrupt_index, r, queued, entered, fault) ==
    /\ pc = "steps"
    /\ handle_interrupt(interrupt_index, r, queued, fault)
    /\ frames' = IF ReturnsFromInterrupt(result')
                 THEN SubSeq(entered, 1, Len(entered) - 1) ELSE entered
    /\ LoopOn(BreaksBatch(result'))
    /\ UNCHANGED ticks

\* Machine8086::step with an interrupt queued by interrupt_on_next_step
StepQueued ==
    /\ pending # <<>>
    /\ InterruptStep(Head(pending), regs, Tail(pending), Append(frames, Head(pending)), "Ok")

\* Machine8086::step on an INT opcode of the guest, its registers being r
StepGuestInt(interrupt_index, r, fault) ==
    /\ pending = <<>>
    /\ frames = <<>>
    /\ InterruptStep(interrupt_index, r, <<>>, <<interrupt_index>>, fault)

\* Machine8086::step while an interrupt is entered and was not returned from:
\* the interrupt is invoked again with the registers as they are
StepReinvoke ==
    /\ pending = <<>>
    /\ frames # <<>>
    /\ InterruptStep(frames[Len(frames)], regs, <<>>, frames, "Ok")

\* the handler called outside the run loop, as a machine step calls it
CallInterrupt(interrupt_index, r, fault) ==
    /\ ints < MaxInts
    /\ handle_interrupt(interrupt_index, r, pending, fault)
    /\ UNCHANGED <<frames, pc, steps_left, ticks>>

CallPortInput(port_index) ==
    /\ ints < MaxInts
    /\ handle_port_input(port_index)
    /\ UNCHANGED <<frames, pc, steps_left, ticks>>

CallPortOutput(port_index, value) ==
    /\ ints < MaxInts
    /\ handle_port_output(port_index, value)
    /\ UNCHANGED <<frames, pc, steps_left, ticks>>

\* the handler called outside the run loop, at most limit entry-point calls in all
HandlerCall(limit, interrupt_index, r, fault) ==
    /\ ints < limit
    /\ handle_interrupt(interrupt_index, r, pending, fault)
    /\ UNCHANGED <<frames, pc, steps_left, ticks>>

\* Machine8086::step on an opcode of the guest that stores a word in memory
GuestStore(limit, addr, value) ==
    /\ ~halted
    /\ ints < limit
    /\ SetMachine(poke_u16(Machine(regs, flags, mem, pending, FALSE), addr, value))
    /\ vectors' = VectorsAfter(vectors, mem, mem', None)
    /\ lastint' = None
    /\ lastio' = None
    /\ ints' = ints + 1
    /\ UNCHANGED <<frames, result, key_press_queue, port_states, seconds_since_start, pc,
                   steps_left, overflow_checks, lastport, pushed, popped, cga_log, ticks>>
    /\ UNCHANGED fsvars

\* main: the machine is made, the image loaded, the handler built and init_machine run
ZeroRegs == [AX |-> 0, BX |-> 0, CX |-> 0, DX |-> 0, DS |-> 0, ES |-> 0,
             SS |-> 0, CS |-> 0, SP |-> 0, IP |-> 0]

\* the program run: its header, and an image that starts with the name "A.TXT"
\* read_u16::<LittleEndian> at byte offset off of the stream
ReadU16(stream, off) == stream[off + 1] + stream[off + 2] * Byte

\* MzHeader::parse: fifteen little-endian words; None when the stream ends before
MzHeaderWords == 15
ParseMzHeader(stream) ==
    IF Len(stream) < 2 * MzHeaderWords THEN None
    ELSE Some([signature |-> ReadU16(stream, 0),
               last_block_bytes |-> ReadU16(stream, 2),
               file_block_count |-> ReadU16(stream, 4),
               relocation_items |-> ReadU16(stream, 6),
               header_paragraph_count |-> ReadU16(stream, 8),
               minimum_memory_paragraphs |-> ReadU16(stream, 10),
               maximum_memory_paragraphs |-> ReadU16(stream, 12),
               initial_ss |-> ReadU16(stream, 14),
               initial_sp |-> ReadU16(stream, 16),
               checksum |-> ReadU16(stream, 18),
               initial_ip |-> ReadU16(stream, 20),
               initial_cs |-> ReadU16(stream, 22),
               relocation_table |-> ReadU16(stream, 24),
               overlay |-> ReadU16(stream, 26),
               overlay_information |-> ReadU16(stream, 28)])

EXE_BLOCK_BYTES == 512

data_start(header) == header.header_paragraph_count * EXE_PARAGRAPH_BYTES

\* data_end, as the integer the usize arithmetic stands for (it may be negative)
data_end(header) ==
    LET subtract_bytes == IF header.last_block_bytes > 0
                          THEN EXE_BLOCK_BYTES - header.last_block_bytes ELSE 0
    IN header.file_block_count * EXE_BLOCK_BYTES - subtract_bytes

\* a subtraction in data_end or extract_data goes below zero: a panic with overflow
\* checks; without them the value wraps, and the wraps cancel unless the data length
\* itself is negative, which makes the length of result.resize about 2^64
ExtractAborts(header, checked) ==
    \/ data_end(header) - data_start(header) < 0
    \/ checked /\ header.last_block_bytes > EXE_BLOCK_BYTES
    \/ checked /\ data_end(header) < 0

\* extract_data: data_end - data_start bytes, zero where the stream has ended
extract_data(header, stream) ==
    [k \in 1..(data_end(header) - data_start(header)) |->
        IF data_start(header) + k <= Len(stream) THEN stream[data_start(header) + k]
        ELSE 0]

\* (a variant of extract_data that reads from the start of the stream)
LoadStream_NoSeek(m, stream, checked) ==
    With(ParseMzHeader(stream), LAMBDA h :
        IF h = None THEN Panic(m)
        ELSE IF ExtractAborts(Unwrap(h), checked) THEN Panic(m)
        ELSE load_into_machine(m, Unwrap(h),
                               [k \in 1..(data_end(Unwrap(h)) - data_start(Unwrap(h))) |->
                                   IF k <= Len(stream) THEN stream[k] ELSE 0],
                               checked))

\* main: MzHeader::parse(&mut file).unwrap(), then load_into_machine on the same file
LoadStream(m, stream, checked) ==
    With(ParseMzHeader(stream), LAMBDA h :
        IF h = None THEN Panic(m)
        ELSE IF ExtractAborts(Unwrap(h), checked) THEN Panic(m)
        ELSE load_into_machine(m, Unwrap(h), extract_data(Unwrap(h), stream), checked))

Header0 == [initial_sp |-> 128, initial_ip |-> 0, initial_ss |-> 0, initial_cs |-> 0]
Image0 == <<65, 46, 84, 88, 84, 0>>

HwInit(header, exe_data, checked) ==
    LET m0 == Machine(ZeroRegs, [Carry |-> FALSE, Zero |-> FALSE], EmptyMap, <<>>, FALSE)
        m == init_machine(load_into_machine(m0, header, exe_data, checked))
    IN /\ regs = m.regs
       /\ flags = m.flags
       /\ mem = m.mem
       /\ pending = m.pending
       /\ halted = m.halted
       /\ overflow_checks = checked
       /\ frames = <<>>
       /\ result = "ShouldReturn"
       /\ key_press_queue = <<>>
       /\ port_states = PortStates(0, 0, 0, 0)
       /\ seconds_since_start = 0
       /\ pc = "events"
       /\ steps_left = 0
       /\ lastport = None
       /\ ints = 0
       /\ lastint = None
       /\ pushed = <<>>
       /\ popped = <<>>
       /\ vectors = EmptyMap
       /\ cga_log = <<>>
       /\ lastio = None
       /\ ticks = 0

(***************************************************************************)
(* The file system over a small host directory.                            *)
(***************************************************************************)
\* host file names
HostA    == <<65, 46, 84, 88, 84>>        \* "A.TXT"
HostB    == <<66, 46, 84, 88, 84>>        \* "B.TXT"
HostC    == <<67, 46, 66, 65, 84>>        \* "C.BAT"
HostLowA == <<97, 46, 116, 120, 116>>     \* "a.txt"
\* file names and search specs the guest passes
GuestA    == <<65, 46, 84, 88, 84>>       \* "A.TXT"
GuestLowB == <<98, 46, 116, 120, 116>>    \* "b.txt"
GuestADot == <<65, 46, 84, 88, 84, 46>>   \* "A.TXT."
GuestNew  == <<78, 46, 84>>               \* "N.T"
GuestLong == <<108, 111, 110, 103, 116, 105, 116, 108, 101, 46, 116>>   \* "longtitle.t"
SpecTxt   == <<42, 46, 84, 88, 84>>       \* "*.TXT"
SpecAll   == <<42>>                       \* "*"
SpecQBat  == <<63, 46, 66, 65, 84>>       \* "?.BAT"

HostFile(name) == [name |-> name, data |-> <<72, 73>>]

\* the host directories the file system is started on
Directories ==
    { <<>>,
      <<HostFile(HostA), HostFile(HostB), HostFile(HostC)>>,
      <<HostFile(HostA), HostFile(HostLowA)>>,
      <<HostFile(HostLowA), HostFile(HostA), HostFile(HostC)>> }

GuestNames == {GuestA, GuestLowB, GuestADot, GuestNew}
SearchSpecs == {SpecTxt, SpecAll, SpecQBat}
Handles == 0..(MaxSlots + 1)

\* StandardDosFileSystem::new, DirListingCache::new: the directory is listed once
FsInit ==
    /\ disk \in Directories
    /\ file_handles = <<>>
    /\ \E l \in {list_dir(Cache(EmptyMap, EmptyMap), DirEntries(disk))} :
         /\ real_to_dos_names = l.cache.r2d
         /\ dos_to_real_names = l.cache.d2r
         /\ handed = Pairs(DirEntries(disk), l.found)
    /\ current_file_queue = None
    /\ dta = EmptyMap
    /\ live = {}
    /\ last = Call("new", <<>>, "Ok", <<>>)
    /\ listing = <<>>
    /\ find_spec = None
    /\ delivered = <<>>
    /\ calls = 0

\* ---- the handle table: create, open, close, read, write and seek on one directory
Init ==
    /\ FsInit
    /\ disk = <<HostFile(HostA), HostFile(HostB), HostFile(HostC)>>
    /\ HwInit(Header0, Image0, TRUE)

Next ==
    \/ \E f \in {"Ok", "PermissionDenied"} : Create(GuestA, 0, f) /\ UNCHANGED hwvars
    \/ \E n \in {GuestA, GuestNew}, m \in {"ReadOnly", "WriteOnly", "ReadWrite"},
          f \in {"Ok", "PermissionDenied"} : Open(n, m, f) /\ UNCHANGED hwvars
    \/ \E h \in Handles : Close(h) /\ UNCHANGED hwvars
    \/ \E h \in Handles : Read(h, 1) /\ UNCHANGED hwvars
    \/ \E h \in Handles : Write(h) /\ UNCHANGED hwvars
    \/ \E h \in Handles, w \in {"Start", "Current", "End"} :
          Seek(h, Wide(0, 1), w) /\ UNCHANGED hwvars

Spec == Init /\ [][Next]_vars

\* ---- the find cursor between the other calls of the file system
CursorInit ==
    /\ FsInit
    /\ disk = <<HostFile(HostA), HostFile(HostB), HostFile(HostC)>>
    /\ HwInit(Header0, Image0, TRUE)

CursorNext ==
    \/ Create(GuestNew, 0, "Ok") /\ UNCHANGED hwvars
    \/ Open(GuestA, "ReadOnly", "Ok") /\ UNCHANGED hwvars
    \/ Close(1) /\ UNCHANGED hwvars
    \/ Read(1, 1) /\ UNCHANGED hwvars
    \/ Seek(1, Wide(0, 1), "Start") /\ UNCHANGED hwvars
    \/ \E s \in SearchSpecs : FindFirst(s) /\ UNCHANGED hwvars
    \/ FindNext /\ UNCHANGED hwvars

CursorSpec == CursorInit /\ [][CursorNext]_vars

\* ---- reads and seeks on the host file HELLO.TXT holding "HELLO WORLD"
HostHello == <<72, 69, 76, 76, 79, 46, 84, 88, 84>>
HelloWorld == <<72, 69, 76, 76, 79, 32, 87, 79, 82, 76, 68>>
ReadCounts == {0, 5, 8}
SeekOffsets == {Wide(0, 0), Wide(0, 3)}

ReadInit ==
    /\ disk = <<[name |-> HostHello, data |-> HelloWorld]>>
    /\ file_handles = <<>>
    /\ \E l \in {list_dir(Cache(EmptyMap, EmptyMap), DirEntries(disk))} :
         /\ real_to_dos_names = l.cache.r2d
         /\ dos_to_real_names = l.cache.d2r
         /\ handed = Pairs(DirEntries(disk), l.found)
    /\ current_file_queue = None /\ dta = EmptyMap /\ live = {}
    /\ last = Call("new", <<>>, "Ok", <<>>)
    /\ listing = <<>> /\ find_spec = None /\ delivered = <<>> /\ calls = 0
    /\ HwInit(Header0, Image0, TRUE)

ReadNext ==
    \/ Create(HostHello, 0, "Ok") /\ UNCHANGED hwvars
    \/ \E m \in {"ReadOnly", "WriteOnly", "ReadWrite"} :
          Open(HostHello, m, "Ok") /\ UNCHANGED hwvars
    \/ \E h \in 1..MaxSlots : Close(h) /\ UNCHANGED hwvars
    \/ \E h \in 1..MaxSlots, n \in ReadCounts : Read(h, n) /\ UNCHANGED hwvars
    \/ \E h \in 1..MaxSlots, o \in SeekOffsets, w \in {"Start", "Current", "End"} :
          Seek(h, o, w) /\ UNCHANGED hwvars

ReadSpec == ReadInit /\ [][ReadNext]_vars

\* ---- names the cache does not hold: create and open by names in either case
GuestLowNew == <<110, 46, 116>>           \* "n.t"
ResolveNames == {GuestNew, GuestLowNew, GuestLowB}
AccessModes == {"ReadOnly", "WriteOnly", "ReadWrite"}

ResolveInit ==
    /\ FsInit
    /\ disk = <<HostFile(HostA), HostFile(HostB), HostFile(HostC)>>
    /\ HwInit(Header0, Image0, TRUE)

ResolveNext ==
    \/ Create(GuestLowNew, 0, "Ok") /\ UNCHANGED hwvars
    \/ \E n \in {GuestNew, GuestLowB}, m \in AccessModes :
          Open(n, m, "Ok") /\ UNCHANGED hwvars
    \/ Close(1) /\ UNCHANGED hwvars

ResolveSpec == ResolveInit /\ [][ResolveNext]_vars

\* ---- the directory cache and the find cursor: names from the guest and the host
DirInit ==
    /\ FsInit
    /\ HwInit(Header0, Image0, TRUE)

DirNext ==
    \/ \E n \in GuestNames : Create(n, 0, "Ok") /\ UNCHANGED hwvars
    \/ \E n \in GuestNames : Open(n, "ReadOnly", "Ok") /\ UNCHANGED hwvars
    \/ \E h \in 1..MaxSlots : Close(h) /\ UNCHANGED hwvars
    \/ \E s \in SearchSpecs : FindFirst(s) /\ UNCHANGED hwvars
    \/ FindNext /\ UNCHANGED hwvars

DirSpec == DirInit /\ [][DirNext]_vars

\* ---- the directory cache under guest names with a title longer than eight bytes
LongGuestNames == {GuestLong, GuestLowB}

LongNameNext ==
    \/ \E n \in LongGuestNames : Create(n, 0, "Ok") /\ UNCHANGED hwvars
    \/ \E n \in LongGuestNames : Open(n, "ReadOnly", "Ok") /\ UNCHANGED hwvars
    \/ \E s \in {SpecAll, GuestLong} : FindFirst(s) /\ UNCHANGED hwvars
    \/ FindNext /\ UNCHANGED hwvars

LongNameSpec == DirInit /\ [][LongNameNext]_vars

\* ---- DirListingCache called directly, as tests::test_dir_listing_cache does
FootText    == <<102, 111, 111, 116, 46, 116, 101, 120, 116>>       \* "foot.text"
FootText2   == <<102, 111, 111, 116, 46, 116, 101, 120, 116, 50>>   \* "foot.text2"
FootTilde   == <<70, 79, 79, 84, 126, 49, 46, 84, 69, 88>>          \* "FOOT~1.TEX"
LongName    == <<102, 105, 108, 101, 119, 105, 116, 104, 108, 111, 110, 103,
                 110, 97, 109, 101, 46, 116, 120, 116>>             \* "filewithlongname.txt"
LongerName  == <<102, 105, 108, 101, 119, 105, 116, 104, 108, 111, 110, 103,
                 101, 114, 110, 97, 109, 101, 46, 116, 120, 116>>   \* "filewithlongername.txt"
LongererName == <<102, 105, 108, 101, 119, 105, 116, 104, 108, 111, 110, 103,
                  101, 114, 101, 114, 110, 97, 109, 101, 46, 116, 120, 116>>
                                                                    \* "filewithlongerername.txt"
LambdaName  == <<955, 46, 116, 101, 120>>                           \* U+03BB ".tex"
TestNames == {FootText, FootText2, FootTilde, LongName, LongerName, LongererName, LambdaName}
\* DOS names asked for before any host name has them
TestDosNames == {Parse(<<70, 79, 79, 84, 46, 84, 69, 88>>),         \* "FOOT.TEX"
                 Parse(<<102, 105, 108, 101, 119, 105, 126, 49, 46, 116, 120, 116>>)}
                                                                    \* "filewi~1.txt"

\* a call of DirListingCache::get_dos_name
CallGetDosName(real_filename) ==
    \E g \in {get_dos_name(Cache(real_to_dos_names, dos_to_real_names), real_filename)} :
    /\ Running
    /\ real_to_dos_names' = g.cache.r2d
    /\ dos_to_real_names' = g.cache.d2r
    /\ handed' = handed \cup {<<real_filename, g.name>>}
    /\ last' = Call("get_dos_name", real_filename, "Ok", <<g.name>>)
    /\ calls' = calls + 1
    /\ UNCHANGED <<disk, file_handles, current_file_queue, dta, live, listing, find_spec,
                   delivered>>

\* a call of DirListingCache::get_real_name
CallGetRealName(dos_filename) ==
    \E g \in {get_real_name(Cache(real_to_dos_names, dos_to_real_names), DirEntries(disk),
                            dos_filename)} :
    /\ Running
    /\ real_to_dos_names' = g.cache.r2d
    /\ dos_to_real_names' = g.cache.d2r
    /\ handed' = handed \cup Pairs(DirEntries(disk), g.listed)
    /\ last' = Call("get_real_name", dos_filename, "Ok", <<g.name>>)
    /\ calls' = calls + 1
    /\ UNCHANGED <<disk, file_handles, current_file_queue, dta, live, listing, find_spec,
                   delivered>>

NamesInit ==
    /\ FsInit
    /\ disk = <<>>
    /\ HwInit(Header0, Image0, TRUE)

NamesNext ==
    \/ \E r \in TestNames : CallGetDosName(r) /\ UNCHANGED hwvars
    \/ \E d \in TestDosNames : CallGetRealName(d) /\ UNCHANGED hwvars

NamesSpec == NamesInit /\ [][NamesNext]_vars

(***************************************************************************)
(* The keyboard under the run loop, and the handler over every request.    *)
(***************************************************************************)
\* the guest's register file at an INT: the registers as they are, AX to DX as given
Request(ax, bx, cx, dx) == [regs EXCEPT !.AX = ax, !.BX = bx, !.CX = cx, !.DX = dx]

\* AX with AH = ah and AL = al
AHAL(ah, al) == ah * Byte + al

\* the same with DS as given
RequestDS(ax, bx, cx, dx, ds) == [Request(ax, bx, cx, dx) EXCEPT !.DS = ds]

\* key codes the host sends: a, Return, and 0, which maps to no key
KbdKeycodes == {97, KeycodeReturn, 48}

\* ---- the keyboard: host key presses, the timer and the guest's INT 16h and 21h/2Ch
KbdInit ==
    /\ FsInit
    /\ disk = <<>>
    /\ HwInit(Header0, Image0, TRUE)

KbdNext ==
    \/ \E k \in KbdKeycodes, s \in BOOLEAN : HostKeyDown(k, s)
    \/ StartBatch
    \/ StepQueued
    \/ \E ah \in {0, 1} : StepGuestInt(22, Request(AHAL(ah, 85), 0, 0, 0), "Ok")
    \/ StepGuestInt(33, Request(AHAL(44, 0), 0, 0, 0), "Ok")
    \/ StepReinvoke

KbdSpec == KbdInit /\ [][KbdNext]_vars

\* the run loop does not stop: the event loop ends, and the step loop steps
KbdFairSpec ==
    /\ KbdInit
    /\ [][KbdNext]_vars
    /\ WF_vars(StartBatch)
    /\ WF_vars(StepQueued)
    /\ WF_vars(StepReinvoke)

\* ---- the handler called with every interrupt and request it knows, and some it
\* does not
Requests ==
    { <<2, Request(0, 0, 0, 0)>>, <<4, Request(0, 0, 0, 0)>>, <<9, Request(0, 0, 0, 0)>>,
      <<8, Request(0, 0, 0, 0)>>,
      <<16, Request(AHAL(0, 3), 0, 0, 0)>>, <<16, Request(AHAL(1, 0), 0, 0, 0)>>,
      <<16, Request(AHAL(2, 0), AHAL(1, 0), 0, AHAL(5, 3))>>,
      <<16, Request(AHAL(2, 0), AHAL(255, 0), 0, AHAL(5, 3))>>,
      <<16, Request(AHAL(2, 0), AHAL(8, 0), 0, AHAL(5, 3))>>,
      <<16, Request(AHAL(6, 0), AHAL(23, 0), AHAL(0, 0), AHAL(1, 1))>>,
      <<16, Request(AHAL(6, 1), AHAL(23, 0), AHAL(0, 0), AHAL(1, 1))>>,
      <<16, Request(AHAL(8, 0), AHAL(0, 0), 0, 0)>>,
      <<16, Request(AHAL(15, 0), 0, 0, 0)>>,
      <<16, Request(AHAL(17, 48), 0, 0, 0)>>, <<16, Request(AHAL(17, 0), 0, 0, 0)>>,
      <<16, Request(AHAL(18, 0), AHAL(0, 48), 0, 0)>>, <<16, Request(AHAL(18, 0), 0, 0, 0)>>,
      <<16, Request(AHAL(3, 0), 0, 0, 0)>>,
      <<20, Request(0, 0, 0, 0)>>,
      <<22, Request(AHAL(0, 85), 0, 0, 0)>>, <<22, Request(AHAL(1, 85), 0, 0, 0)>>,
      <<22, Request(AHAL(2, 0), 0, 0, 0)>>,
      <<28, Request(0, 0, 0, 0)>>,
      <<33, Request(AHAL(37, 33), 0, 0, 4660)>>, <<33, Request(AHAL(44, 0), 0, 0, 0)>>,
      <<33, Request(AHAL(51, 0), 0, 0, 7)>>, <<33, Request(AHAL(53, 33), 0, 0, 0)>>,
      <<33, Request(AHAL(60, 0), 0, 0, 256)>>,
      <<33, Request(AHAL(61, 0), 0, 0, 256)>>, <<33, Request(AHAL(61, 3), 0, 0, 256)>>,
      <<33, Request(AHAL(63, 0), 1, 1, 512)>>, <<33, Request(AHAL(63, 0), 1, 65535, 65535)>>,
      <<33, Request(AHAL(66, 0), 1, 0, 1)>>, <<33, Request(AHAL(66, 3), 1, 0, 1)>>,
      <<33, Request(AHAL(68, 0), 0, 0, 0)>>, <<33, Request(AHAL(68, 1), 0, 0, 0)>>,
      <<33, Request(AHAL(9, 0), 0, 0, 0)>>,
      <<51, Request(0, 0, 0, 0)>>, <<51, Request(1, 0, 0, 0)>> }

Ports == {97, 513, 980, 981, 985, 986, 96}

IntInit ==
    /\ FsInit
    /\ disk = <<HostFile(HostA), HostFile(HostB), HostFile(HostC)>>
    /\ \E c \in BOOLEAN : HwInit(Header0, Image0, c)

IntNext ==
    \/ HostKeyDown(KeycodeReturn, FALSE)
    \/ \E q \in Requests, f \in {"Ok", "PermissionDenied"} : CallInterrupt(q[1], q[2], f)
    \/ \E p \in Ports : CallPortInput(p)
    \/ \E p \in Ports, v \in {1} : CallPortOutput(p, v)

IntSpec == IntInit /\ [][IntNext]_vars

\* ---- the interrupt vector table and the BIOS timer: INT 21h/25h and 35h, INT 08h,
\* and stores of the guest into a vector and into the timer counter
MaxBiosCalls == 3
VectorSlots == {0, 8, 255}
VectorOffsets == {4660, 65535}
VectorSegments == {0, 61440}
GuestStoreAddresses == {8 * INTERRUPT_TABLE_ENTRY_BYTES, BIOS_SYSTEM_TIMER_COUNTER_LOW,
                        BIOS_SYSTEM_TIMER_COUNTER_HIGH}

BiosInit ==
    /\ FsInit
    /\ disk = <<>>
    /\ HwInit(Header0, Image0, TRUE)

BiosNext ==
    \/ \E al \in VectorSlots, dx \in VectorOffsets, ds \in VectorSegments :
          HandlerCall(MaxBiosCalls, 33, RequestDS(AHAL(37, al), 0, 0, dx, ds), "Ok")
    \/ \E al \in VectorSlots \cup {9} :
          HandlerCall(MaxBiosCalls, 33, Request(AHAL(53, al), 0, 0, 0), "Ok")
    \/ HandlerCall(MaxBiosCalls, 8, regs, "Ok")
    \/ \E a \in GuestStoreAddresses : GuestStore(MaxBiosCalls, a, 65535)

BiosSpec == BiosInit /\ [][BiosNext]_vars

\* ---- the loader on MZ files of 38 bytes: a header of fifteen words and eight bytes
MzWord(v) == <<v % Byte, v \div Byte>>
MzFile(last_block_bytes, file_block_count, header_paragraph_count, initial_ss, initial_cs) ==
    MzWord(23117) \o MzWord(last_block_bytes) \o MzWord(file_block_count) \o MzWord(0)
      \o MzWord(header_paragraph_count) \o MzWord(0) \o MzWord(65535)
      \o MzWord(initial_ss) \o MzWord(128) \o MzWord(0) \o MzWord(3) \o MzWord(initial_cs)
      \o MzWord(28) \o MzWord(0) \o MzWord(0)
      \o <<201, 202, 203, 204, 205, 206, 207, 208>>
MzFiles ==
    { MzFile(l, f, h, ss, cs) : l \in {0, 36, 40}, f \in {0, 1}, h \in {2, 3},
                                ss \in {0, 65263, 65264}, cs \in {0, 65535} }
      \cup {<<77, 90>>}

\* the file is open and nothing is loaded
LoaderInit ==
    /\ disk = <<>>
    /\ file_handles = <<>>
    /\ real_to_dos_names = EmptyMap /\ dos_to_real_names = EmptyMap /\ handed = {}
    /\ current_file_queue = None /\ dta = EmptyMap /\ live = {}
    /\ listing = <<>> /\ find_spec = None /\ delivered = <<>> /\ calls = 0
    /\ \E stream \in MzFiles : last = Call("open", stream, "Ok", <<>>)
    /\ regs = ZeroRegs /\ flags = [Carry |-> FALSE, Zero |-> FALSE]
    /\ mem = EmptyMap /\ pending = <<>> /\ halted = FALSE
    /\ overflow_checks \in BOOLEAN
    /\ frames = <<>> /\ result = "ShouldReturn" /\ key_press_queue = <<>>
    /\ port_states = PortStates(0, 0, 0, 0) /\ seconds_since_start = 0
    /\ pc = "load" /\ steps_left = 0 /\ lastport = None /\ ints = 0 /\ lastint = None
    /\ pushed = <<>> /\ popped = <<>> /\ vectors = EmptyMap /\ cga_log = <<>>
    /\ lastio = None /\ ticks = 0

\* main, lines 263-266: parse the header and load the program
LoadProgram ==
    /\ pc = "load"
    /\ SetMachine(LoadStream(Machine(regs, flags, mem, pending, FALSE), last.arg,
                             overflow_checks))
    /\ pc' = "loaded"
    /\ last' = Call("load_into_machine", last.arg, "Ok", <<>>)
    /\ UNCHANGED <<disk, file_handles, real_to_dos_names, dos_to_real_names,
                   current_file_queue, dta, live, handed, listing, find_spec, delivered,
                   calls>>
    /\ UNCHANGED <<frames, result, key_press_queue, port_states, seconds_since_start,
                   steps_left, overflow_checks, lastport, ints, lastint, pushed, popped,
                   vectors, lastio, cga_log, ticks>>

LoaderNext == LoadProgram

LoaderSpec == LoaderInit /\ [][LoaderNext]_vars

\* ---- reads of the ports 3DAh, 61h and 201h, writes to the ports 61h and 3D9h and
\* calls of set_cga_vertial_retrace from outside, in any order
MaxPortCalls == 4
PortInCall(limit, port_index) ==
    /\ ints < limit
    /\ handle_port_input(port_index)
    /\ UNCHANGED <<frames, pc, steps_left, ticks>>

PortOutCall(limit, port_index, value) ==
    /\ ints < limit
    /\ handle_port_output(port_index, value)
    /\ UNCHANGED <<frames, pc, steps_left, ticks>>

\* a call of set_cga_vertial_retrace from outside the handler
Retrace(limit, vertical_retrace) ==
    /\ ~halted /\ ints < limit
    /\ port_states' = set_cga_vertial_retrace(port_states, vertical_retrace)
    /\ cga_log' = Append(cga_log, CgaCommand(vertical_retrace))
    /\ lastio' = None
    /\ ints' = ints + 1
    /\ UNCHANGED <<regs, flags, mem, pending, frames, result, key_press_queue,
                   seconds_since_start, pc, steps_left, overflow_checks, halted, lastport,
                   lastint, pushed, popped, vectors, ticks>>
    /\ UNCHANGED fsvars

PortInit ==
    /\ FsInit
    /\ disk = <<>>
    /\ HwInit(Header0, Image0, TRUE)

PortNext ==
    \/ \E p \in {986, 97, 513} : PortInCall(MaxPortCalls, p)
    \/ \E p \in {97, 985} : PortOutCall(MaxPortCalls, p, 1)
    \/ \E b \in BOOLEAN : Retrace(MaxPortCalls, b)

PortSpec == PortInit /\ [][PortNext]_vars

\* ---- filename_matches_spec on a few names and search specs
MatchTitles == {<<>>, <<65>>, <<65, 66>>, <<82, 69, 65, 68, 77, 69>>}   \* "", A, AB, README
MatchExts == {<<>>, <<84>>, <<84, 88, 84>>, <<66, 65, 84>>}            \* "", T, TXT, BAT
MatchNames == {DosFileName(t, e) : t \in MatchTitles, e \in MatchExts}
StarDotStar == <<42, 46, 42>>
MatchSpecs ==
    { StarDotStar, <<42>>, <<65, 42, 46, 42>>, <<63, 46, 84, 88, 84>>,   \* *.* * A*.* ?.TXT
      <<42, 46, 84, 42>>, <<65, 46>>, <<65, 66, 46, 84, 88, 84>>,         \* *.T* A. AB.TXT
      <<42, 46, 66, 65, 84>>, <<63, 63, 46, 42>>,                         \* *.BAT ??.*
      <<65, 42>>, <<65, 42, 46, 84, 42>>, <<63, 63>> }                    \* A* A*.T* ??

\* a call of filename_matches_spec
CallMatches(filename, search_spec) ==
    /\ last' = Call("filename_matches_spec", <<filename, search_spec>>, "Ok",
                    <<filename_matches_spec(filename, search_spec)>>)
    /\ UNCHANGED <<disk, file_handles, real_to_dos_names, dos_to_real_names,
                   current_file_queue, dta, live, handed, listing, find_spec, delivered,
                   calls>>
    /\ UNCHANGED hwvars

MatchInit ==
    /\ FsInit
    /\ disk = <<>>
    /\ HwInit(Header0, Image0, TRUE)

MatchNext == \E f \in MatchNames, s \in MatchSpecs : CallMatches(f, s)

MatchSpec == MatchInit /\ [][MatchNext]_vars

\* ---- the file requests of INT 21h on the directory {A.TXT, B.TXT, C.BAT}; the image
\* holds "A.TXT" at DS:0100h, so that DS:0102h is the name "TXT" of no file
MaxDosCalls == 3
NameRequests ==
    { Request(AHAL(60, 0), 0, 0, 256),                      \* create "A.TXT"
      Request(AHAL(61, 0), 0, 0, 256),                      \* open "A.TXT" read-only
      Request(AHAL(61, 1), 0, 0, 256),                      \* open "A.TXT" write-only
      Request(AHAL(61, 3), 0, 0, 256),                      \* open in no access mode
      Request(AHAL(61, 0), 0, 0, 258) }                     \* open "TXT" read-only
HandleRequests ==
    { Request(AHAL(63, 0), 1, 1, 512),                      \* read 1 byte from handle 1
      Request(AHAL(63, 0), 1, 3, 512),                      \* read 3 bytes from handle 1
      Request(AHAL(63, 0), 2, 1, 512),                      \* read 1 byte from handle 2
      RequestDS(AHAL(63, 0), 1, 65535, 0, 65535),           \* read past the end of memory
      RequestDS(AHAL(63, 0), 1, 1, 32, 65535),              \* read to FFFF:0020
      Request(AHAL(66, 0), 1, 0, 1),                        \* seek handle 1 to 1
      Request(AHAL(66, 1), 1, 65535, 65535),                \* seek by FFFFFFFF from here
      Request(AHAL(66, 2), 1, 0, 0),                        \* seek to the end
      Request(AHAL(66, 2), 1, 65535, 65535),                \* seek by FFFFFFFF from the end
      Request(AHAL(66, 3), 1, 0, 0),                        \* seek from no origin
      Request(AHAL(66, 0), 0, 0, 0) }                       \* seek handle 0

DosInit ==
    /\ FsInit
    /\ disk = <<HostFile(HostA), HostFile(HostB), HostFile(HostC)>>
    /\ HwInit(Header0, Image0, TRUE)

DosNext ==
    \/ \E q \in NameRequests, f \in {"Ok", "PermissionDenied"} :
          HandlerCall(MaxDosCalls, 33, q, f)
    \/ \E q \in HandleRequests : HandlerCall(MaxDosCalls, 33, q, "Ok")

DosSpec == DosInit /\ [][DosNext]_vars

\* ---- INT 10h/06h on text pages 0 and 1, between stores of the guest into the cells
\* of rows 1..3 and into the active page number
MaxScreenCalls == 2
CellAddress(page, row, col) == 753664 + page * 4096 + (row * 80 + col) * 2
ScrollRequest(n, bh, top, left, bottom, right) ==
    Request(AHAL(6, n), bh * Byte, top * Byte + left, bottom * Byte + right)
ScrollRequests ==
    {ScrollRequest(0, 23, 0, 0, 24, 79)}
      \cup {ScrollRequest(n, bh, 1, 1, 3, 2) : n \in 0..2, bh \in {7, 23}}
      \cup {ScrollRequest(n, 7, 2, 1, 2, 1) : n \in 0..1}
ScreenStores ==
    { <<CellAddress(0, 2, 1), 1857>>, <<CellAddress(0, 3, 1), 1858>>,
      <<CellAddress(0, 3, 2), 1859>>, <<CellAddress(1, 3, 1), 1860>>,
      <<BIOS_ACTIVE_VIDEO_PAGE, 1>>, <<BIOS_ACTIVE_VIDEO_PAGE, 0>> }

ScreenInit ==
    /\ FsInit
    /\ disk = <<>>
    /\ \E checked \in BOOLEAN : HwInit(Header0, Image0, checked)

ScreenNext ==
    \/ \E q \in ScrollRequests : HandlerCall(MaxScreenCalls, 16, q, "Ok")
    \/ \E st \in ScreenStores : GuestStore(MaxScreenCalls, st[1], st[2])

ScreenSpec == ScreenInit /\ [][ScreenNext]_vars

\* ---- INT 10h/06h on the one-cell rectangle at row 2, column 1 and on a rectangle
\* of three rows, with AL up to and above the height and the bottom row
RectRequests ==
    {ScrollRequest(n, 7, 2, 1, 2, 1) : n \in 0..3}
      \cup {ScrollRequest(n, 7, 1, 1, 3, 2) : n \in {1, 3}}
RectStores ==
    { <<CellAddress(0, 2, 1), 1857>>, <<CellAddress(0, 1, 1), 1858>>,
      <<CellAddress(0, 3, 1), 1859>>, <<BIOS_ACTIVE_VIDEO_PAGE, 1>> }

RectNext ==
    \/ \E q \in RectRequests : HandlerCall(MaxScreenCalls, 16, q, "Ok")
    \/ \E st \in RectStores : GuestStore(MaxScreenCalls, st[1], st[2])

RectSpec == ScreenInit /\ [][RectNext]_vars

(***************************************************************************)
(* Properties of the handle table.                                         *)
(***************************************************************************)
\* C1: every handle returned by a successful create or open and not closed since
\* is at least 1 and names a non-empty slot of the handle table.
C1_LiveHandlesNameOpenSlots ==
    \A h \in live : h >= 1 /\ h <= Len(file_handles) /\ file_handles[h] # None

\* a handle was closed, its slot emptied, and a later handle is live and was used
C1_Witness ==
    /\ live = {2}
    /\ Len(file_handles) = 2 /\ file_handles[1] = None
    /\ last.op = "read" /\ last.arg[1] = 2 /\ last.res = "Ok"

\* C2: a call of read, write, seek or close on a handle that is not live (closed
\* and not returned again, 0, or beyond the table) returns InvalidFileHandle.
C2_DeadHandleIsInvalid ==
    [][(last'.op \in {"read", "write", "seek", "close"} /\ last'.arg[1] \notin live)
         => last'.res = "InvalidFileHandle"]_vars

(***************************************************************************)
(* Properties of the directory cache.                                      *)
(***************************************************************************)
\* C3: real_to_dos_names and dos_to_real_names are inverse maps.
C3_MapsAreInverse ==
    /\ \A r \in DOMAIN real_to_dos_names :
          /\ real_to_dos_names[r] \in DOMAIN dos_to_real_names
          /\ dos_to_real_names[real_to_dos_names[r]] = r
    /\ \A d \in DOMAIN dos_to_real_names :
          /\ dos_to_real_names[d] \in DOMAIN real_to_dos_names
          /\ real_to_dos_names[dos_to_real_names[d]] = d

\* C4: once get_dos_name(r) has returned d, every later get_dos_name(r) returns d.
C4_DosNamesAreStable ==
    \A p \in handed, q \in handed : p[1] = q[1] => p[2] = q[2]

\* C6: for every pair (r, d) get_dos_name has returned, get_real_name(d) is r at
\* any later point.
C6_RoundTrip ==
    \A p \in handed :
        get_real_name(Cache(real_to_dos_names, dos_to_real_names),
                      DirEntries(disk), p[2]).name = p[1]

\* the directory holds two host names with the same 8.3 candidate, and a host
\* name whose cache entry has been remapped since get_dos_name returned its name
C6_Witness ==
    /\ \E p \in handed : p[2].title = <<65, 126, 49>>
    /\ \E p \in handed : p[1] \in DOMAIN real_to_dos_names /\ real_to_dos_names[p[1]] # p[2]

(***************************************************************************)
(* Properties of find_first_file and find_next_file.                       *)
(***************************************************************************)
IsPrefix(s, t) == Len(s) <= Len(t) /\ SubSeq(t, 1, Len(s)) = s

\* the DOS names of the last listing that match the spec, in listing order
ExpectedMatches ==
    LET Matches(n) == filename_matches_spec(n, Unwrap(find_spec))
    IN SelectSeq([i \in 1..Len(listing) |-> listing[i].dos], Matches)

\* C7: the find calls since the last find_first_file(spec) deliver the directory
\* entries whose DOS name matches spec, each once and in listing order; the call
\* after the last match, and every find_next_file after it or with no
\* find_first_file before it, returns NoMoreFiles.
C7_FindDeliversMatchesInOrder ==
    /\ last.op \in {"find_first", "find_next"} => last.res \in {"Ok", "NoMoreFiles"}
    /\ find_spec = None =>
          /\ delivered = <<>>
          /\ last.op = "find_next" => last.res = "NoMoreFiles"
    /\ find_spec # None =>
          /\ \A i \in 1..Len(listing) : <<listing[i].real, listing[i].dos>> \in handed
          /\ IsPrefix(delivered, ExpectedMatches)
          /\ (last.op \in {"find_first", "find_next"} /\ last.res = "NoMoreFiles")
                => delivered = ExpectedMatches
          /\ (last.op \in {"find_first", "find_next"} /\ last.res = "Ok")
                => delivered # <<>> /\ last.val = <<delivered[Len(delivered)]>>

\* directory {A.TXT, B.TXT, C.BAT}, spec *.TXT: A.TXT, B.TXT, then NoMoreFiles
C7_Witness ==
    /\ find_spec = Some(SpecTxt)
    /\ Len(listing) = 3
    /\ delivered = <<DosFileName(<<65>>, <<84, 88, 84>>), DosFileName(<<66>>, <<84, 88, 84>>)>>
    /\ last.op = "find_next" /\ last.res = "NoMoreFiles"

(***************************************************************************)
(* Properties of get_dos_name.                                             *)
(***************************************************************************)
\* the 8.3 name the claim gives host name r: upper-case, the title the first 8
\* bytes before the last dot and the extension the first 3 after it; with k >= 1
\* the title shortened to make room for ~k
ClaimedName(r, k) ==
    LET s == split_filename(AsciiName(r))
        sfx == IF k = 0 THEN <<>> ELSE <<Tilde>> \o Decimal(k)
        room == TitleMax - Len(sfx)
        ext == UnwrapOrEmpty(s.ext)
    IN DosFileName(SubSeq(s.title, 1, Min(Len(s.title), room)) \o sfx,
                   SubSeq(ext, 1, Min(Len(ext), ExtMax)))

FootTex    == DosFileName(<<70, 79, 79, 84>>, <<84, 69, 88>>)                    \* FOOT.TEX
Foot1Tex   == DosFileName(<<70, 79, 79, 84, 126, 49>>, <<84, 69, 88>>)           \* FOOT~1.TEX
FileWith   == DosFileName(<<70, 73, 76, 69, 87, 73, 84, 72>>, <<84, 88, 84>>)    \* FILEWITH.TXT
FileWi1    == DosFileName(<<70, 73, 76, 69, 87, 73, 126, 49>>, <<84, 88, 84>>)   \* FILEWI~1.TXT
FileWi2    == DosFileName(<<70, 73, 76, 69, 87, 73, 126, 50>>, <<84, 88, 84>>)   \* FILEWI~2.TXT

\* C5: distinct host names have distinct DOS names; a host name new to the cache
\* gets its 8.3 candidate when that is free and else the candidate suffixed ~k for
\* the smallest k >= 1 that is free, title and suffix within 8 bytes; the names
\* of tests::test_dir_listing_cache come out as the test says.
C5_FirstFreeCandidate ==
    /\ [](\A r1 \in DOMAIN real_to_dos_names, r2 \in DOMAIN real_to_dos_names :
             real_to_dos_names[r1] = real_to_dos_names[r2] => r1 = r2)
    /\ [](\A p \in handed, q \in handed : p[2] = q[2] => p[1] = q[1])
    /\ [][(last'.op = "get_dos_name" /\ last'.arg \notin DOMAIN real_to_dos_names) =>
            LET r == last'.arg
                d == last'.val[1]
                taken == DOMAIN dos_to_real_names
            IN /\ Len(d.title) <= TitleMax /\ Len(d.ext) <= ExtMax
               /\ IF ClaimedName(r, 0) \notin taken THEN d = ClaimedName(r, 0)
                  ELSE \E k \in 1..(Cardinality(taken) + 1) :
                          /\ d = ClaimedName(r, k)
                          /\ d \notin taken
                          /\ \A j \in 1..(k - 1) : ClaimedName(r, j) \in taken
               /\ (taken = {} /\ r = FootText) => d = FootTex
               /\ (taken = {FootTex} /\ r = FootText2) => d = Foot1Tex
               /\ (taken = {} /\ r = LongName) => d = FileWith
               /\ (taken = {FileWith} /\ r = LongerName) => d = FileWi1
               /\ (taken = {FileWith, FileWi1} /\ r = LongererName) => d = FileWi2]_vars

\* the three long names of the test, in the order of the test
C5_Witness ==
    /\ real_to_dos_names = (LongName :> FileWith) @@ (LongerName :> FileWi1)
                           @@ (LongererName :> FileWi2)
    /\ last.op = "get_dos_name" /\ last.arg = LongererName

(***************************************************************************)
(* Properties of the keyboard queue and of the interrupt result.           *)
(***************************************************************************)
\* the <<scan_code, ascii_char>> pairs of a sequence of keys
KeyPairs(keys) == [i \in 1..Len(keys) |-> <<keys[i].scan_code, keys[i].ascii_char>>]

\* C8: the <<AH, AL>> pairs that successful INT 16h/00h calls returned are a prefix
\* of the keys the host pushed, in the order pushed, and the keys not yet returned
\* are exactly the keys still queued: none is lost, repeated or out of order.
C8_KeysAreDeliveredFifo ==
    /\ IsPrefix(popped, KeyPairs(pushed))
    /\ KeyPairs(pushed) = popped \o KeyPairs(key_press_queue)

\* two different keys were returned, by the second batch or later, and a third,
\* different from the second, waits
C8_Witness ==
    /\ Len(popped) = 2
    /\ popped[1] # popped[2]
    /\ Len(key_press_queue) = 1
    /\ KeyPairs(key_press_queue)[1] # popped[2]
    /\ ticks >= 2

\* the result the claim gives a call of handle_interrupt
ClaimedResult(call) ==
    IF call.index = 22 /\ call.ah = 0 /\ call.empty THEN "ShouldBlockForKeypress"
    ELSE IF call.index = 33 /\ call.ah = 44 THEN "ShouldReturnAndWaitForEvents"
    ELSE "ShouldReturn"

\* C9: after handle_interrupt has returned, result is decided by that call alone:
\* ShouldBlockForKeypress for INT 16h/00h on an empty queue,
\* ShouldReturnAndWaitForEvents for INT 21h/2Ch, ShouldReturn for any other.
C9_ResultOfCurrentCall ==
    (lastint # None /\ ~halted) => result = ClaimedResult(Unwrap(lastint))

\* a call found ShouldBlockForKeypress left by the call before it and returned
\* with ShouldReturn
C9_Witness ==
    /\ lastint # None
    /\ ~halted
    /\ Unwrap(lastint).before = "ShouldBlockForKeypress"
    /\ result = "ShouldReturn"

\* the step just taken was handle_interrupt on INT 16h/00h
KeyWaitStep == ints' = ints + 1 /\ Unwrap(lastint').index = 22 /\ Unwrap(lastint').ah = 0

\* a key wait is entered and not returned from
KeyWaitEntered == frames # <<>> /\ frames[Len(frames)] = 22

\* C10: INT 16h/00h on an empty queue leaves AX and the queue as they were and
\* reports ShouldBlockForKeypress, and the step loop leaves the interrupt entered;
\* while it is entered the key at the head of the queue stays there; the wait ends
\* only in a step that returns the head of the queue in AH/AL; and a wait with a
\* key queued does end.
C10_KeyWaitEndsWithTheKey ==
    /\ [][(KeyWaitStep /\ key_press_queue = <<>>) =>
            /\ regs'.AX = AHAL(Unwrap(lastint').ah, Unwrap(lastint').al)
            /\ key_press_queue' = key_press_queue
            /\ result' = "ShouldBlockForKeypress"
            /\ KeyWaitEntered'
            /\ pc' = "events"]_vars
    /\ [][(KeyWaitEntered /\ KeyWaitEntered' /\ key_press_queue # <<>>) =>
            (key_press_queue' # <<>> /\ Head(key_press_queue') = Head(key_press_queue))]_vars
    /\ [][(KeyWaitStep /\ frames' = <<>>) =>
            /\ key_press_queue # <<>>
            /\ regs'.AX = AHAL(Head(key_press_queue).scan_code,
                               Head(key_press_queue).ascii_char)
            /\ key_press_queue' = Tail(key_press_queue)]_vars
    /\ (KeyWaitEntered /\ key_press_queue # <<>> /\ (pc = "steps" \/ ticks < MaxTicks))
          ~> (frames = <<>>)

\* a key wait that was entered on an empty queue has ended with a key
C10_Witness ==
    /\ lastint # None
    /\ Unwrap(lastint).index = 22
    /\ Unwrap(lastint).ah = 0
    /\ Unwrap(lastint).entered # <<>>
    /\ frames = <<>>
    /\ popped # <<>>
    /\ regs.AX = AHAL(popped[Len(popped)][1], popped[Len(popped)][2])

(***************************************************************************)
(* Properties of the interrupt vector table and the BIOS timer.            *)
(***************************************************************************)
\* the step just taken was handle_interrupt on INT index with AH = ah
IntStep(index, ah) ==
    /\ ints' = ints + 1
    /\ lastint' # None
    /\ Unwrap(lastint').index = index
    /\ Unwrap(lastint').ah = ah

\* a byte of a memory
ByteAt(memory, addr) == IF addr \in DOMAIN memory THEN memory[addr] ELSE 0

TickStep ==
    /\ ints' = ints + 1
    /\ lastint' # None
    /\ Unwrap(lastint').index = 8

\* the little-endian word at addr of a memory
WordAt(memory, addr) == ByteAt(memory, addr) + 256 * ByteAt(memory, addr + 1)

\* C12: INT 08h replaces the counter (low word at 0x46C, high word at 0x46E) by
\* counter + 1 modulo 2^32: the low word goes up by one modulo 2^16 and the high
\* word goes up by one modulo 2^16 exactly when the low word was 0xFFFF.
C12_TimerCountsModulo32Bits ==
    [][TickStep =>
         LET low == WordAt(mem, 1132)
             high == WordAt(mem, 1134)
         IN /\ WordAt(mem', 1132) = (low + 1) % 65536
            /\ WordAt(mem', 1134) = (high + (IF low = 65535 THEN 1 ELSE 0)) % 65536]_vars

\* a tick has taken the counter from 0xFFFFFFFF to 0 (nothing else makes it 0
\* after a tick)
C12_Witness ==
    /\ lastint # None
    /\ Unwrap(lastint).index = 8
    /\ 1132 \in DOMAIN mem
    /\ 1134 \in DOMAIN mem
    /\ WordAt(mem, 1132) = 0
    /\ WordAt(mem, 1134) = 0

(***************************************************************************)
(* Properties of the file requests of INT 21h.                             *)
(***************************************************************************)
\* the numeric DOS error codes
ErrorNumber(name) ==
    CASE name = "FileNotFound" -> 2 [] name = "PathNotFound" -> 3
      [] name = "NoFileHandlesLeft" -> 4 [] name = "AccessDenied" -> 5
      [] name = "InvalidFileHandle" -> 6 [] name = "InsufficientMemory" -> 8
      [] name = "InvalidFileAccessMode" -> 12 [] name = "InvalidData" -> 13
      [] name = "NoMoreFiles" -> 18 [] name = "FileAlreadyExists" -> 80

\* the step just taken was a file request of INT 21h that returned
FileRequestStep ==
    /\ \E ah \in {60, 61, 63, 66} : IntStep(33, ah)
    /\ ~halted'

\* C13: when a file request of INT 21h (3Ch, 3Dh, 3Fh, 42h) returns, CF is clear
\* exactly when the file-system operation succeeded; then AX is the handle or the
\* byte count the operation returned, and DX:AX the position seek returned; else
\* AX is a DOS error code, the code of the operation's error if one was made.
C13_FileRequestsReportByCarry ==
    [][FileRequestStep =>
         LET ah == Unwrap(lastint').ah
             made == calls' = calls + 1
             ok == made /\ last'.res = "Ok"
         IN /\ flags'.Carry = ~ok
            /\ (ok /\ ah \in {60, 61}) =>
                   (regs'.AX = last'.val[1] /\ regs'.AX \in live' /\ regs'.AX >= 1)
            /\ (ok /\ ah = 63) => regs'.AX = last'.val[1]
            /\ (ok /\ ah = 66) =>
                   (regs'.AX = last'.val[1].lo /\ regs'.DX = last'.val[1].hi)
            /\ ~ok => regs'.AX \in {2, 3, 4, 5, 6, 8, 12, 13, 18, 80}
            /\ (made /\ ~ok) => regs'.AX = ErrorNumber(last'.res)]_vars

\* a file is open, and an open of a missing file has just failed with CF set and
\* AX = 2
C13_Witness ==
    /\ lastint # None
    /\ Unwrap(lastint).index = 33
    /\ Unwrap(lastint).ah = 61
    /\ last.op = "open"
    /\ last.res = "FileNotFound"
    /\ flags.Carry
    /\ regs.AX = 2
    /\ live # {}

(***************************************************************************)
(* Properties of INT 10h/06h.                                              *)
(***************************************************************************)
\* the registers of the scroll request of the step just taken (the handler leaves
\* them as they were) and the page that was active
ScrollStep == IntStep(16, 6) /\ ~halted'
ScrollLines == Unwrap(lastint').al
ScrollBH == High(regs'.BX)
ScrollTop == High(regs'.CX)
ScrollLeft == Low(regs'.CX)
ScrollBottom == High(regs'.DX)
ScrollRight == Low(regs'.DX)
ScrollPage == ByteAt(mem, BIOS_ACTIVE_VIDEO_PAGE)
BlankAfter(row, col) ==
    /\ ByteAt(mem', CellAddress(ScrollPage, row, col)) = 0
    /\ ByteAt(mem', CellAddress(ScrollPage, row, col) + 1) = ScrollBH

\* C14: INT 10h/06h with AL = 0 leaves every cell of the rectangle CH..DH x CL..DL
\* of the active page with character 0 and attribute BH.
C14_ClearBlanksTheRectangle ==
    [][(ScrollStep /\ ScrollLines = 0) =>
         \A row \in ScrollTop..ScrollBottom, col \in ScrollLeft..ScrollRight :
            BlankAfter(row, col)]_vars

\* page 0 was cleared as a whole with BH = 17h after a store into it: every even
\* byte of the 4000 from B8000h is 0 and every odd byte is 17h
C14_Witness ==
    /\ lastint # None
    /\ Unwrap(lastint).index = 16
    /\ Unwrap(lastint).ah = 6
    /\ Unwrap(lastint).al = 0
    /\ regs.DX = 24 * Byte + 79
    /\ ints = 2
    /\ ByteAt(mem, BIOS_ACTIVE_VIDEO_PAGE) = 0
    /\ CellAddress(0, 3, 1) \in DOMAIN mem
    /\ \A k \in 0..1999 : /\ ByteAt(mem, 753664 + 2 * k) = 0
                          /\ ByteAt(mem, 753664 + 2 * k + 1) = 23

\* C15: INT 10h/06h with AL = n from 1 to the height of the rectangle leaves each
\* row y of top..bottom-n with what row y+n held before, and each row of
\* bottom-n+1..bottom blank.
C15_ScrollsByAL ==
    [][(ScrollStep /\ ScrollLines >= 1
          /\ ScrollLines <= ScrollBottom - ScrollTop + 1) =>
         /\ \A row \in ScrollTop..(ScrollBottom - ScrollLines),
                col \in ScrollLeft..ScrollRight :
               WordAt(mem', CellAddress(ScrollPage, row, col))
                 = WordAt(mem, CellAddress(ScrollPage, row + ScrollLines, col))
         /\ \A row \in (ScrollBottom - ScrollLines + 1)..ScrollBottom,
                col \in ScrollLeft..ScrollRight :
               BlankAfter(row, col)]_vars

(***************************************************************************)
(* Properties of filename_matches_spec.                                    *)
(***************************************************************************)
\* C16: filename_matches_spec(f, "*.*") is true for every f with a non-empty title,
\* with or without an extension.
C16_StarDotStarMatchesAll ==
    (/\ last.op = "filename_matches_spec"
     /\ last.arg[2] = StarDotStar
     /\ last.arg[1].title # <<>>) => last.val[1]

(***************************************************************************)
(* Properties of seek.                                                     *)
(***************************************************************************)
\* a 32-bit offset read as a signed integer
Signed32(offset) ==
    IF offset.hi >= 32768 THEN (offset.hi - U16) * U16 + offset.lo
    ELSE offset.hi * U16 + offset.lo

\* the position base + offset with the offset signed, where it is not negative (base
\* is the current position or the file length), and the offset itself from the start
SignedPosition(base, offset, origin) ==
    IF origin = 0 THEN Some(offset)
    ELSE IF Signed32(offset) >= 0 THEN Some(WideAdd(base, offset))
    ELSE IF base.hi = 0 /\ base.lo + Signed32(offset) >= 0
         THEN Some(Wide(0, base.lo + Signed32(offset)))
    ELSE None

\* the step just taken was an INT 21h/42h on which seek succeeded
SeekStep ==
    /\ IntStep(33, 66)
    /\ ~halted'
    /\ calls' = calls + 1
    /\ last'.op = "seek"
    /\ last'.res = "Ok"

SeekBase ==
    LET f == Unwrap(file_handles[regs'.BX])
    IN IF Unwrap(lastint').al = 1 THEN f.pos ELSE WideOf(Len(FileData(f)))

\* C17: a seek that succeeds puts the file at, and returns in DX:AX, the offset
\* itself from the start, and the current position or the file length plus the
\* offset read as a signed 32-bit integer from the current position or the end.
C17_SeekIsSigned ==
    [][SeekStep =>
         LET claimed == SignedPosition(SeekBase, last'.arg[2], Unwrap(lastint').al)
         IN claimed # None =>
              /\ Wide(regs'.DX, regs'.AX) = Unwrap(claimed)
              /\ Unwrap(file_handles'[regs'.BX]).pos = Unwrap(claimed)]_vars

(***************************************************************************)
(* Properties of INT 21h/3Fh.                                              *)
(***************************************************************************)
\* the step just taken was an INT 21h/3Fh whose buffer DS:DX of CX bytes does not
\* lie inside the memory (the handler leaves DS, DX and CX as they were)
ReadOutsideStep ==
    /\ IntStep(33, 63)
    /\ regs'.DS * 16 + regs'.DX + regs'.CX > MemSize

\* C18: INT 21h/3Fh with a buffer that is not entirely inside the memory returns
\* with CF set and AX = 8, reads no file and leaves the memory and the positions
\* of the files as they were.
C18_ReadOutsideIsRefused ==
    [][ReadOutsideStep =>
         /\ ~halted'
         /\ flags'.Carry
         /\ regs'.AX = 8
         /\ calls' = calls
         /\ mem' = mem
         /\ file_handles' = file_handles]_vars

(***************************************************************************)
(* Properties of port 3DAh.                                                *)
(***************************************************************************)
\* bit k of v
BitOf(v, k) == (v \div (2 ^ k)) % 2

\* the step just taken was a read of port 3DAh
StatusReadStep ==
    /\ Len(cga_log') = Len(cga_log) + 1
    /\ cga_log'[Len(cga_log')].kind = "read"

\* what a read of port 3DAh does: it returns the register as it was and leaves it
\* with bit 3 clear, bit 0 inverted and the other bits as they were
StatusReadEffect ==
    LET old == port_states.cga_status_register
        new == port_states'.cga_status_register
    IN /\ lastport' = Some(old)
       /\ cga_log'[Len(cga_log')].value = old
       /\ BitOf(new, 3) = 0
       /\ BitOf(new, 0) = 1 - BitOf(old, 0)
       /\ \A k \in (0..15) \ {0, 3} : BitOf(new, k) = BitOf(old, k)

\* over the whole history: a read sees bit 3 set exactly when it is the first read
\* after set_cga_vertial_retrace(true), and two reads with no command between them
\* differ in bit 0
StatusReadsInOrder ==
    \A i \in 1..Len(cga_log) :
       cga_log[i].kind = "read" =>
          /\ (BitOf(cga_log[i].value, 3) = 1)
                <=> (i > 1 /\ cga_log[i - 1] = CgaCommand(TRUE))
          /\ (i > 1 /\ cga_log[i - 1].kind = "read") =>
                BitOf(cga_log[i].value, 0) # BitOf(cga_log[i - 1].value, 0)

\* C19: a read of port 3DAh returns the CGA status register as it was and leaves
\* it with bit 3 clear and bit 0 inverted; so exactly the first read after
\* set_cga_vertial_retrace(true) sees bit 3 set, and two consecutive reads differ in
\* bit 0.
C19_StatusReadClearsRetrace ==
    [][StatusReadStep => StatusReadEffect]_vars /\ []StatusReadsInOrder

\* set_cga_vertial_retrace(true), then two reads: the first returned 8, the second 1
C19_Witness ==
    /\ cga_log = <<CgaCommand(TRUE), CgaRead(8), CgaRead(1)>>
    /\ lastport = Some(1)
    /\ port_states.cga_status_register = 0

(***************************************************************************)
(* Properties of the requests outside the supported list.                  *)
(***************************************************************************)
\* the supported list: the interrupt indices with their subcodes, and the ports
SupportedInterrupt(index, ah, al, bl) ==
    \/ index \in {8, 20, 28}
    \/ index = 16 /\ (ah \in {0, 1, 2, 6, 8, 15} \/ (ah = 17 /\ al = 48)
                                                    \/ (ah = 18 /\ bl = 48))
    \/ index = 22 /\ ah \in {0, 1}
    \/ index = 33 /\ (ah \in {37, 44, 51, 53, 60, 61, 63, 66} \/ (ah = 68 /\ al = 0))
    \/ index = 51 /\ ah = 0 /\ al = 0
SupportedPort(dir, port) ==
    IF dir = "in" THEN port \in {97, 513, 986} ELSE port \in {97, 513, 980, 981, 985}

\* the step just taken was a call of handle_interrupt, of a port handler
InterruptCallStep == ints' = ints + 1 /\ lastio' = None /\ lastint' # None
PortCallStep == ints' = ints + 1 /\ lastio' # None

\* C20: a call with an interrupt index, a subcode or sub-function, or a port that
\* is not in the supported list aborts the VM.
C20_UnsupportedIsFatal ==
    [][/\ (InterruptCallStep
            /\ ~SupportedInterrupt(Unwrap(lastint').index, Unwrap(lastint').ah,
                                   Unwrap(lastint').al, Low(regs'.BX))) => halted'
       /\ (PortCallStep
            /\ ~SupportedPort(Unwrap(lastio').dir, Unwrap(lastio').port)) => halted']_vars

(***************************************************************************)
(* Properties of handle allocation.                                        *)
(***************************************************************************)
\* the smallest handle number >= 1 that is not in the set
LowestFree(handles) ==
    CHOOSE h \in 1..(Cardinality(handles) + 1) :
        h \notin handles /\ \A k \in 1..(h - 1) : k \in handles

\* C21: a create or open that succeeds returns the smallest handle number >= 1
\* that was not live when it was called.
C21_LowestFreeHandle ==
    [][(calls' = calls + 1 /\ last'.op \in {"create", "open"} /\ last'.res = "Ok")
         => last'.val[1] = LowestFree(live)]_vars

\* handle 1 was closed while handle 2 stayed live, and the next open returned 1
C21_Witness ==
    /\ last.op = "open" /\ last.res = "Ok" /\ last.val = <<1>>
    /\ live = {1, 2}
    /\ calls = 4

(***************************************************************************)
(* Properties of the loader.                                               *)
(***************************************************************************)
\* the header of the file that was loaded, read off the file word by word
Loaded == pc = "loaded" /\ Len(last.arg) >= 30
FileWord(n) == last.arg[2 * n + 1] + 256 * last.arg[2 * n + 2]
MzLastBlockBytes == FileWord(1)
MzFileBlockCount == FileWord(2)
MzHeaderParagraphs == FileWord(4)
MzInitialSS == FileWord(7)
MzInitialSP == FileWord(8)
MzInitialIP == FileWord(10)
MzInitialCS == FileWord(11)

MzImageStart == MzHeaderParagraphs * 16
MzImageEnd ==
    IF MzLastBlockBytes > 0 THEN MzFileBlockCount * 512 - (512 - MzLastBlockBytes)
    ELSE MzFileBlockCount * 512
\* the header describes an image: the last block is no longer than a block and the
\* image does not end before it starts
MzImageLength == IF MzLastBlockBytes > 512 THEN 0 - 1 ELSE MzImageEnd - MzImageStart

\* C22: after load_into_machine SP = initial_sp, IP = initial_ip, SS = initial_ss +
\* 110h and CS = initial_cs + 110h (as 16-bit registers) and DS = ES = 100h, for
\* every initial_ss and initial_cs.
C22_LoaderSetsRegisters ==
    (Loaded /\ MzImageLength >= 0) =>
       /\ ~halted
       /\ regs.SP = MzInitialSP /\ regs.IP = MzInitialIP
       /\ regs.SS = (MzInitialSS + 272) % 65536
       /\ regs.CS = (MzInitialCS + 272) % 65536
       /\ regs.DS = 256 /\ regs.ES = 256

\* image byte k of the loaded file, for k inside the file
ImageByte(k) == last.arg[MzImageStart + k + 1]
ImageBytesAt(base) ==
    (Loaded /\ ~halted) =>
        \A k \in 0..(MzImageLength - 1) :
            MzImageStart + k < Len(last.arg) => ByteAt(mem, base + k) = ImageByte(k)

\* C23 as stated: load_into_machine copies the bytes [data_start, data_end) of the
\* file to the physical address 11000h, image byte k at 11000h + k.
C23_ImageAt11000h == ImageBytesAt(69632)

\* C23, amended: load_into_machine copies the bytes [data_start, data_end) of the
\* file to paragraph 110h, which is the physical address 1100h: image byte k is at
\* 1100h + k, with data_start = header_paragraph_count * 16 and data_end =
\* file_block_count * 512 - (512 - last_block_bytes) when last_block_bytes > 0, else
\* file_block_count * 512.
C23_ImageAtParagraph110h == ImageBytesAt(4352)

C23_Witness ==
    /\ Loaded /\ ~halted
    /\ MzLastBlockBytes = 40 /\ MzImageStart = 32 /\ MzImageLength = 8
    /\ ByteAt(mem, 4352) = 203 /\ ByteAt(mem, 4357) = 208 /\ ByteAt(mem, 4358) = 0

\* C24: after the loader has initialised the BIOS data area, the word at 410h is
\* 0061h (equipment) and the word at 413h is 640 (conventional memory in KiB).
C24_EquipmentAndMemorySize ==
    (Loaded /\ ~halted) => WordAt(mem, 1040) = 97 /\ WordAt(mem, 1043) = 640

(***************************************************************************)
(* Properties of read.                                                     *)
(***************************************************************************)
\* a read call on the handle h, which was live, with a buffer of n bytes
ReadStep(h, n) ==
    calls' = calls + 1 /\ last'.op = "read" /\ last'.arg = <<h, n>> /\ h \in live

PositionOf(handles, h) == handles[h][1].pos.hi * 65536 + handles[h][1].pos.lo
LengthOf(d, handles, h) == Len(d[DiskIndex(d, handles[h][1].name)].data)
\* the bytes of the file from the position on, none when the position is past the end
Remaining(h) ==
    IF PositionOf(file_handles, h) <= LengthOf(disk, file_handles, h)
    THEN LengthOf(disk, file_handles, h) - PositionOf(file_handles, h) ELSE 0

\* the read returns min(n, remaining), the file bytes from the position on, and
\* advances the position by the count returned
ReadEffect(h, n) ==
    LET count == IF n < Remaining(h) THEN n ELSE Remaining(h)
        from == PositionOf(file_handles, h)
    IN /\ last'.res = "Ok"
       /\ last'.val[1] = count
       /\ Len(last'.val) = count + 1
       /\ \A k \in 1..count :
            last'.val[k + 1] = disk[DiskIndex(disk, file_handles[h][1].name)].data[from + k]
       /\ PositionOf(file_handles', h) = from + count
       /\ disk' = disk

\* C25 as stated: read on a live handle returns min(len(buf), file length -
\* position), the file bytes starting at the position, and advances the position
\* by the count returned; a read at the end of the file returns 0 without error.
C25_ReadOnLiveHandle ==
    [][\A h \in 1..MaxSlots, n \in ReadCounts : ReadStep(h, n) => ReadEffect(h, n)]_vars

\* C25, amended: the same of a read on a live handle that is open for reading
\* (opened ReadOnly or ReadWrite).
C25_ReadOnReadableHandle ==
    [][\A h \in 1..MaxSlots, n \in ReadCounts :
          (ReadStep(h, n) /\ file_handles[h][1].readable) => ReadEffect(h, n)]_vars

\* "HELLO" or " WORLD" was read before, and now a read of 5 at the end returns 0
C25_Witness ==
    /\ last = Call("read", <<1, 5>>, "Ok", <<0>>)
    /\ file_handles[1] # None /\ file_handles[1][1].readable
    /\ file_handles[1][1].pos = Wide(0, 11)
    /\ disk[1].data = HelloWorld

(***************************************************************************)
(* Properties of the names the file system holds.                          *)
(***************************************************************************)
\* upper-case, a title of at most 8 bytes and an extension of at most 3
IsShortName(n) ==
    /\ Len(n.title) <= 8 /\ Len(n.ext) <= 3
    /\ \A i \in 1..Len(n.title) : n.title[i] \notin 97..122
    /\ \A i \in 1..Len(n.ext) : n.ext[i] \notin 97..122

\* C26: every DosFileName in the directory cache or in the find queue is upper-case
\* with a title of at most 8 bytes and an extension of at most 3 bytes, whatever
\* names the guest passed to create, open and find_first_file.
C26_HeldNamesAreShort ==
    /\ \A n \in DOMAIN dos_to_real_names : IsShortName(n)
    /\ \A r \in DOMAIN real_to_dos_names : IsShortName(real_to_dos_names[r])
    /\ current_file_queue # None =>
          \A i \in 1..Len(current_file_queue[1]) : IsShortName(current_file_queue[1][i])

(***************************************************************************)
(* Properties of the find cursor.                                          *)
(***************************************************************************)
\* the DOS names of the directory as find_first_file listed it that match spec
ListedMatches(l, spec) ==
    LET Matches(n) == filename_matches_spec(n, spec)
    IN SelectSeq([i \in 1..Len(l) |-> l[i].dos], Matches)

FileSystemCall(op) == calls' = calls + 1 /\ last'.op = op

\* find_first_file(s) leaves as the cursor the matches of s but the first, which it
\* returns, whatever the cursor was
CursorReplaced ==
    FileSystemCall("find_first") =>
        LET m == ListedMatches(listing', last'.arg)
        IN /\ current_file_queue' = Some(IF m = <<>> THEN <<>> ELSE Tail(m))
           /\ last'.val = (IF m = <<>> THEN <<>> ELSE <<Head(m)>>)

\* find_next_file returns and removes the front of the cursor
CursorPopped ==
    FileSystemCall("find_next") =>
        IF current_file_queue # None /\ current_file_queue[1] # <<>>
        THEN /\ last'.res = "Ok" /\ last'.val = <<Head(current_file_queue[1])>>
             /\ current_file_queue' = Some(Tail(current_file_queue[1]))
        ELSE /\ last'.res = "NoMoreFiles"
             /\ current_file_queue' = current_file_queue

CursorKept ==
    (\E op \in {"create", "open", "close", "read", "seek"} : FileSystemCall(op))
        => current_file_queue' = current_file_queue

\* C27: find_first_file replaces the find cursor wholesale, so the find_next_file
\* calls after find_first_file(s2) return the remaining matches of s2 and never a
\* match left over from an earlier find_first_file(s1); find_next_file removes
\* exactly the front of the cursor; create, open, close, read and seek leave the
\* cursor as it is.
C27_CursorReplacedWholesale ==
    /\ [][CursorReplaced /\ CursorPopped /\ CursorKept]_vars
    /\ [](current_file_queue # None =>
            \A i \in 1..Len(current_file_queue[1]) :
                filename_matches_spec(current_file_queue[1][i], find_spec[1]))

\* find_first_file("*") left B.TXT and C.BAT in the cursor; after
\* find_first_file("*.TXT") the next find_next_file returns B.TXT and the cursor is
\* empty
C27_Witness ==
    /\ Parse(SpecAll) \in DOMAIN dos_to_real_names
    /\ find_spec = Some(SpecTxt)
    /\ last = Call("find_next", <<>>, "Ok", <<DosFileName(<<66>>, <<84, 88, 84>>)>>)
    /\ current_file_queue = Some(<<>>)
    /\ calls = 3

(***************************************************************************)
(* Properties of the bytes find_next_file writes.                          *)
(***************************************************************************)
\* TITLE, or TITLE.EXT when the extension is not empty
NameText(n) == IF n.ext = <<>> THEN n.title ELSE n.title \o <<46>> \o n.ext

\* byte k of the destination is as it was, written or not
ByteKept(k) == (k \in DOMAIN dta' <=> k \in DOMAIN dta) /\ (k \in DOMAIN dta => dta'[k] = dta[k])

DtaWritten ==
    LET name == NameText(last'.val[1])
    IN \A k \in 0..127 :
          IF k >= 30 /\ k < 30 + Len(name) THEN k \in DOMAIN dta' /\ dta'[k] = name[k - 29]
          ELSE IF k = 30 + Len(name) THEN k \in DOMAIN dta' /\ dta'[k] = 0
          ELSE IF k >= 21 /\ k <= 30 THEN k \in DOMAIN dta' /\ dta'[k] = 0
          ELSE ByteKept(k)

\* C28: a find_next_file that succeeds (called by the guest, or by find_first_file
\* as its last step) writes 0 to the bytes 15h..1Eh of the DTA,
\* then the name (TITLE or TITLE.EXT) from 1Eh on and one 0 after it, and leaves
\* every other byte of the 128 as it was; one that returns NoMoreFiles leaves the
\* DTA unchanged.
C28_FindWritesNameIntoDta ==
    [][(calls' = calls + 1 /\ last'.op \in {"find_first", "find_next"}) =>
          /\ last'.res = "Ok" => DtaWritten
          /\ last'.res = "NoMoreFiles" => dta' = dta]_vars

\* "A~1.TXT" was in the DTA and find_next_file has written "C.BAT" over it: the
\* last two bytes of the longer name are still there
C28_Witness ==
    /\ last = Call("find_next", <<>>, "Ok", <<DosFileName(<<67>>, <<66, 65, 84>>)>>)
    /\ 21..37 \subseteq DOMAIN dta
    /\ dta[30] = 67 /\ dta[34] = 84 /\ dta[35] = 0
    /\ dta[36] = 84 /\ dta[37] = 0
    /\ dta[21] = 0 /\ 20 \notin DOMAIN dta

(***************************************************************************)
(* Properties of the wildcard matcher, field by field.                     *)
(***************************************************************************)
NoWildcard(spec) == \A i \in 1..Len(spec) : spec[i] \notin {42, 63}
OnlyQuestionMarks(spec) == spec # <<>> /\ \A i \in 1..Len(spec) : spec[i] = 63
\* X* for a text X without wildcards that is not empty
TextThenStar(spec) ==
    Len(spec) >= 2 /\ spec[Len(spec)] = 42 /\ NoWildcard(SubSeq(spec, 1, Len(spec) - 1))

\* the field text must match the field spec
MustMatch(text, spec) ==
    \/ NoWildcard(spec) /\ text = spec
    \/ OnlyQuestionMarks(spec) /\ Len(text) = Len(spec)
    \/ TextThenStar(spec) /\ IsPrefix(SubSeq(spec, 1, Len(spec) - 1), text)
\* the field text must not match the field spec
MustNotMatch(text, spec) ==
    \/ NoWildcard(spec) /\ text # spec
    \/ OnlyQuestionMarks(spec) /\ Len(text) # Len(spec)

\* C29: X* matches X and every text that starts with X, a spec without wildcards
\* matches the equal text and no other, a spec of n question marks matches the
\* texts of n bytes and no other, and with no extension part in the search spec
\* every extension matches: a name whose title and extension must match does
\* match, and a name whose title or extension must not match does not.
C29_FieldsMatchAsGlobs ==
    last.op = "filename_matches_spec" =>
        LET f == last.arg[1]
            s == split_filename(last.arg[2])
        IN /\ (MustMatch(f.title, s.title)
                  /\ (s.ext = None \/ MustMatch(f.ext, UnwrapOrEmpty(s.ext))))
              => last.val = <<TRUE>>
           /\ (MustNotMatch(f.title, s.title)
                  \/ (s.ext # None /\ MustNotMatch(f.ext, UnwrapOrEmpty(s.ext))))
              => last.val = <<FALSE>>

(***************************************************************************)
(* Properties of the timer tick under the run loop.                        *)
(***************************************************************************)
\* a step of the machine that dispatches the interrupt index to the handler
Dispatched(index) == ints' = ints + 1 /\ lastint' # None /\ lastint'[1].index = index

\* nothing but the bytes 46Ch..46Fh of the memory changes, and the result is
\* ShouldReturn
OnlyTimerChanges ==
    /\ regs' = regs /\ flags' = flags /\ key_press_queue' = key_press_queue
    /\ port_states' = port_states /\ frames' = frames
    /\ UNCHANGED fsvars
    /\ \A a \in (DOMAIN mem \cup DOMAIN mem') \ (1132..1135) : ByteAt(mem', a) = ByteAt(mem, a)
    /\ result' = "ShouldReturn" /\ ~halted'

\* C30: every INT 08h requests exactly one INT 1Ch, which is dispatched by the very
\* next step, before any opcode of the guest, so that 08h and 1Ch alternate; 08h
\* changes nothing but the timer dwords and 1Ch changes nothing at all (registers,
\* flags, key queue, port state and file system stay), and both leave result =
\* ShouldReturn.
C30_TickThenUserTick ==
    /\ [][/\ Dispatched(8) => (pending = <<8>> /\ pending' = <<28>> /\ OnlyTimerChanges)
          /\ Dispatched(28) => (pending = <<28>> /\ pending' = <<>> /\ OnlyTimerChanges
                                   /\ mem' = mem)
          /\ pending = <<28>> => Dispatched(28)
          /\ pending = <<8>> => Dispatched(8)]_vars
    /\ [](pending \in {<<>>, <<8>>, <<28>>})

\* the second tick has been followed by its INT 1Ch, with a key in the queue
C30_Witness ==
    /\ lastint # None /\ lastint[1].index = 28
    /\ pending = <<>>
    /\ WordAt(mem, 1132) = 2
    /\ key_press_queue # <<>>
    /\ result = "ShouldReturn"

(***************************************************************************)
(* Properties of INT 21h/3Dh and 42h with an AL that names no mode.        *)
(***************************************************************************)
\* the step just taken was an INT 21h with this AH and an AL outside 0..2
BadModeStep(ah) == IntStep(33, ah) /\ lastint'[1].al \notin {0, 1, 2}

\* C31: INT 21h/3Dh with AL outside {0, 1, 2} returns CF = 1 and AX = 0Ch without
\* a call of the file system: no handle is allocated, and the live handles and the
\* directory cache are unchanged; INT 21h/42h with AL outside {0, 1, 2} returns
\* CF = 1 and AX = 0Dh and moves no file position.
C31_BadModeIsRefused ==
    [][/\ BadModeStep(61) =>
             (~halted' /\ flags'.Carry /\ regs'.AX = 12 /\ UNCHANGED fsvars)
       /\ BadModeStep(66) =>
             (~halted' /\ flags'.Carry /\ regs'.AX = 13 /\ UNCHANGED fsvars)]_vars

\* handle 1 was opened and moved to position 1; a seek from origin 3 has been
\* refused and the position is still 1
C31_Witness ==
    /\ lastint # None /\ lastint[1].index = 33 /\ lastint[1].ah = 66 /\ lastint[1].al = 3
    /\ flags.Carry /\ regs.AX = 13
    /\ live = {1} /\ file_handles[1] # None /\ file_handles[1][1].pos = Wide(0, 1)

(***************************************************************************)
(* Properties of the identity of handles.                                  *)
(***************************************************************************)
\* the host file and the position a handle stands for: none when it names no open slot
HandleFile(handles, h) ==
    IF OpenSlot(handles, h) # None
    THEN Some([name |-> handles[h][1].name, pos |-> handles[h][1].pos])
    ELSE None

\* the step just taken was a create, open, close, read or seek on a handle other
\* than h: a create or open is on the handle it returns, if it returns one
OtherHandleStep(h) ==
    /\ calls' = calls + 1
    /\ last'.op \in {"create", "open", "close", "read", "seek"}
    /\ last'.op \in {"create", "open"} => (last'.res = "Ok" => last'.val[1] # h)
    /\ last'.op \in {"close", "read", "seek"} => last'.arg[1] # h

\* C32: while a handle h is live, no create, open, close, read or seek on another
\* handle, successful or failed, changes the host file h refers to, the position
\* of h or the number of h, and a create or open never returns a handle that is
\* live: two live handles never share a slot.
C32_HandleIdentityKept ==
    [][/\ \A h \in live :
             /\ HandleFile(file_handles, h) # None
             /\ OtherHandleStep(h) =>
                   (h \in live' /\ HandleFile(file_handles', h) = HandleFile(file_handles, h))
       /\ (calls' = calls + 1 /\ last'.op \in {"create", "open"} /\ last'.res = "Ok")
             => (last'.val[1] \notin live /\ OpenSlot(file_handles, last'.val[1]) = None)]_vars

\* handle 2 was moved to position 5; then handle 1 was closed, and handle 2 is
\* still live at position 5
C32_Witness ==
    /\ last.op = "close" /\ last.arg = <<1>> /\ last.res = "Ok"
    /\ live = {2}
    /\ HandleFile(file_handles, 2) = Some([name |-> HostHello, pos |-> Wide(0, 5)])

(***************************************************************************)
(* Properties of INT 10h/02h.                                              *)
(***************************************************************************)
\* the bytes of the BIOS data area, 400h..4FFh
BdaBytes == bios_off(0)..bios_off(255)

\* the page INT 10h/02h is asked to move the cursor of: BH, or the active page
\* of the BIOS data area when BH = FFh
AskedPage(bh, memory) == IF bh = 255 THEN ByteAt(memory, BIOS_ACTIVE_VIDEO_PAGE) ELSE bh

\* the step just taken was a call of INT 10h/02h
SetCursorStep == InterruptCallStep /\ IntStep(16, 2)

\* C33: INT 10h/02h, for every value of BH, writes (DH << 8) | DL to the cursor
\* cell of exactly one page (page BH, or the active page when BH = FFh), leaves
\* the cursor cells of the other seven pages and all other cells of the BIOS
\* data area unchanged, and returns normally to the guest.
C33_SetCursorWritesOnePage ==
    [][SetCursorStep =>
          /\ ~halted'
          /\ \E page \in DOMAIN BIOS_CURSOR_POSITION :
                /\ AskedPage(High(regs'.BX), mem) \in DOMAIN BIOS_CURSOR_POSITION
                      => page = AskedPage(High(regs'.BX), mem)
                /\ WordAt(mem', BIOS_CURSOR_POSITION[page]) = regs'.DX
                /\ \A a \in BdaBytes \ {BIOS_CURSOR_POSITION[page],
                                          BIOS_CURSOR_POSITION[page] + 1} :
                      ByteAt(mem', a) = ByteAt(mem, a)]_vars

(***************************************************************************)
(* Properties of the resolution of names the cache does not hold.          *)
(***************************************************************************)
\* the step just taken was the call op(n) of the file system
ResolveStep(op, n) == calls' = calls + 1 /\ last'.op = op /\ last'.arg = n

\* the host name the call just made resolved n to
Resolved(n) == dos_to_real_names'[Parse(n)]

\* the call resolves n: to the upper-cased name when the cache did not hold it,
\* and through the cache, which keeps all its host names, when it did; a file it
\* opens is the host file of that name
ResolvesName(n) ==
    /\ Parse(n) \in DOMAIN dos_to_real_names'
    /\ Parse(n) \notin DOMAIN dos_to_real_names => Resolved(n) = UpperSeq(n)
    /\ \A d \in DOMAIN dos_to_real_names :
          d \in DOMAIN dos_to_real_names' /\ dos_to_real_names'[d] = dos_to_real_names[d]
    /\ last'.res = "Ok" =>
          HandleFile(file_handles', last'.val[1])
             = Some([name |-> Resolved(n), pos |-> Wide(0, 0)])

\* open in mode m of a name with no host file: WriteOnly and ReadWrite create the
\* file and return a handle, ReadOnly fails with FileNotFound
OpensMissing(n, m) ==
    IF m = "ReadOnly"
    THEN last'.res = "FileNotFound" /\ disk' = disk /\ live' = live
    ELSE /\ last'.res = "Ok" /\ last'.val[1] \in live'
         /\ DiskIndex(disk', Resolved(n)) # 0
         /\ disk'[DiskIndex(disk', Resolved(n))].data = <<>>

\* C34: a DOS name that is not yet in the cache is resolved to the host name
\* equal to the upper-cased DOS name; the resolution is repeatable and does not
\* depend on the case: an open of a name equal up to ASCII case to the name of
\* the create before it resolves to the same host path; open in mode WriteOnly
\* or ReadWrite of a name with no host file creates the file and succeeds, and
\* open in mode ReadOnly of it fails with FileNotFound.
C34_NewNamesResolveUpperCased ==
    [][\A n \in ResolveNames :
          /\ (ResolveStep("create", n) \/ ResolveStep("open", n)) => ResolvesName(n)
          /\ (last.op = "create" /\ ResolveStep("open", n) /\ UpperSeq(last.arg) = UpperSeq(n))
                => Resolved(n) = dos_to_real_names[Parse(last.arg)]
          /\ \A m \in AccessModes :
                (Open(n, m, "Ok") /\ DiskIndex(disk, Resolved(n)) = 0) => OpensMissing(n, m)]_vars

\* "n.t" was created as the host file N.T on handle 1, and "N.T" was then opened
\* on handle 2 as the same host file
C34_Witness ==
    /\ last.op = "open" /\ last.arg = GuestNew /\ last.res = "Ok" /\ last.val = <<2>>
    /\ live = {1, 2}
    /\ HandleFile(file_handles, 1) = Some([name |-> GuestNew, pos |-> Wide(0, 0)])
    /\ HandleFile(file_handles, 2) = Some([name |-> GuestNew, pos |-> Wide(0, 0)])
    /\ ~file_handles[1][1].readable /\ file_handles[2][1].readable
    /\ Parse(GuestLowNew) \in DOMAIN dos_to_real_names

(***************************************************************************)
(* Properties of the BIOS data area after init_machine.                    *)
(***************************************************************************)
\* the state right after init_machine: no call has been made yet
AfterInitMachine == calls = 0 /\ ints = 0 /\ ~halted

\* the cells of init_machine other than the text-rows word
OtherVideoCellsReadBack ==
    /\ ByteAt(mem, BIOS_VIDEO_MODE_INDEX) = video_mode.mode_index
    /\ WordAt(mem, BIOS_TEXT_COLUMN_COUNT) = video_mode.text_dims[1]
    /\ WordAt(mem, BIOS_TEXT_PAGE_BYTES) = video_mode.text_page_bytes
    /\ WordAt(mem, BIOS_VIDEO_IO_PORT_ADDRESS) = 980
    /\ WordAt(mem, BIOS_CHAR_HEIGHT) = video_mode.char_pixel_dims[2]

\* C35: after init_machine for video mode 3 each cell of the BIOS data area
\* reads back the value of the mode: the mode byte at 449h is 3, the columns word
\* at 44Ah is 80, the page-bytes word at 44Ch is 1000h, the video port word at
\* 463h is 3D4h, the text-rows word at 484h is 25 and the character-height word
\* at 485h is 14; no write of a cell overwrites part of another cell.
C35_BdaCellsReadBack ==
    AfterInitMachine =>
        /\ OtherVideoCellsReadBack
        /\ WordAt(mem, BIOS_TEXT_ROW_COUNT) = video_mode.text_dims[2]

(***************************************************************************)
(* Properties of INT 10h/06h outside the rectangle.                        *)
(***************************************************************************)
\* the step just taken was a call of INT 10h/06h on a rectangle of the screen
RectStep ==
    /\ InterruptCallStep /\ IntStep(16, 6)
    /\ ScrollTop <= ScrollBottom /\ ScrollBottom <= 24
    /\ ScrollLeft <= ScrollRight /\ ScrollRight <= 79

\* the bytes of the cells of the rectangle on the active page
RectBytes ==
    UNION { {CellAddress(ScrollPage, row, col), CellAddress(ScrollPage, row, col) + 1} :
            row \in ScrollTop..ScrollBottom, col \in ScrollLeft..ScrollRight }

\* every byte of memory outside the rectangle is as it was
OutsideKept ==
    \A a \in (DOMAIN mem \cup DOMAIN mem') \ RectBytes : ByteAt(mem', a) = ByteAt(mem, a)

\* C36: INT 10h/06h never touches text memory outside the given rectangle: for
\* every AL, also above the bottom row DH or the height of the rectangle, and
\* every rectangle with CH <= DH <= 24 and CL <= DL <= 79, the call returns
\* normally and every cell of the active page outside rows CH..DH, columns
\* CL..DL, and all memory outside the active page, is unchanged.
C36_ScrollStaysInRectangle ==
    [][RectStep => (~halted' /\ OutsideKept)]_vars

====
